---- MODULE Spec2Model ----
(***************************************************************************)
(* Model of the concurrency core of codaio-exporter:                       *)
(*   utils/ratelimit.py        AdaptiveRateLimit                           *)
(*   utils/concurrencylimit.py ConcurrencyLimit                            *)
(*   utils/retry.py            retry                                       *)
(*   utils/gather.py           the two gather helpers                      *)
(* composed the way api/client.py composes them for Client._get_page:      *)
(*   _concurrency_limit(retry(5)(_request_limit(raw request))).            *)
(*                                                                         *)
(* asyncio runs the tasks of one event loop cooperatively: the code        *)
(* between two awaits that really suspend is one atomic step.  Every       *)
(* action below is such a step of one task (or of the environment: the     *)
(* clock, the server's response, a cancellation request).                  *)
(*                                                                         *)
(* Time.  The code only ever uses differences to time.monotonic(), so all  *)
(* instants are kept relative to the current instant: backoff_until holds  *)
(* max(0, _backoff_until - now) and timer holds the time a sleep still     *)
(* has to run.  Tick lets one second pass.  A sleep may end late (the      *)
(* event loop only promises "not before").                                 *)
(***************************************************************************)
EXTENDS Naturals, Integers, FiniteSets, Sequences

\* ---- bounds of the model ----
NumCallers == 3
NumTasks == 3
TaskLen == 2
MaxRateLimited == 2
MaxErrors == 2
MaxCancels == 1
NumMutators == 3
NumTables == 2
MaxColumns == 2
NumRows == 2
MaxPending == 2
NumDocs == 2

\* ---- parameters the program fixes ----
\* ConcurrencyLimit(max_num_tasks) and retry(max_num_retries) are explored
\* with small arguments; the client passes 50 and 5.
Capacity == 2
MaxRetries == 1
BackoffInterval == 10
ParkSleep == 1
ErrSleep == 1
CedeSleep == 10
RetrySleep == 1
PollSleep == 1
WriteSemaphore == 512

Callers == 1..NumCallers
Tasks == 1..NumTasks
Mutators == 1..NumMutators
Tables == 1..NumTables

VARIABLES
    state,            \* AdaptiveRateLimit._state: "normal" | "backoff" | "recover"
    backoff_until,    \* AdaptiveRateLimit._backoff_until, relative to now, >= 0
    semaphore,        \* ConcurrencyLimit._semaphore: its free permits
    call,             \* per caller: the frame of one wrapped call
    rateLimitedLeft,  \* 429 responses the server may still give
    errorsLeft,       \* other failed responses the server may still give
    cancelsLeft,      \* cancellation requests still to come
    gpc,              \* the gather helper: "start" | "waiting" | "returned" | "raised"
    gmode,            \* which helper runs: "none" | "cancel" | "complete"
    task,             \* per submitted coroutine: its asyncio task
    outer,            \* the future asyncio.gather returned
    gout,             \* what the helper returned or raised
    failOrder,        \* the tasks that failed, in the order they failed
    doneOrder,        \* the tasks that are done, in the order they ended
    post,             \* per mutating call: the frame of Client.post / delete
    poll,             \* per mutating call: the frame of its status query
    mut,              \* per mutating call: request ids and callbacks so far
    pendingLeft,      \* "completed: false" answers the server may still give
    rphase,           \* reimport_doc: "idle" | "check" | "reimport" | "done" | "failed"
    snap,             \* per table: the snapshot read from the export (line 79)
    rt,               \* per table: its checking task (pc) and its reimporting task (mpc)
    export,           \* export_all_docs: its position and the documents collected
    edoc,             \* per document: _export_doc, its progress bar, its table tasks
    wpc,              \* per output of one table: the task that writes it
    etable            \* the fan-out of export.py:61 and its _export_table tasks

clientVars == <<state, backoff_until, semaphore, call,
                rateLimitedLeft, errorsLeft, cancelsLeft>>

gatherVars == <<gpc, gmode, task, outer, gout, failOrder, doneOrder>>

mutationVars == <<post, poll, mut, pendingLeft>>

reimportVars == <<rphase, snap, rt>>

exportVars == <<export, edoc, wpc, etable>>

vars == <<clientVars, gatherVars, mutationVars, reimportVars, exportVars>>

\* ---- exceptions and results: <<kind, attempt that produced it>> ----
NoExc == <<"none", 0>>
Ok(k) == <<"ok", k>>
Err(k) == <<"Error", k>>
TooManyRequests(k) == <<"TooManyRequests", k>>
Cancelled(k) == <<"Cancelled", k>>

Max(a, b) == IF a >= b THEN a ELSE b

InitCall ==
    [pc |-> "idle", timer |-> 0, is_backoff |-> FALSE,
     remaining_retries |-> MaxRetries, exc |-> NoExc,
     attempts |-> 0, fails |-> 0, lastAttempt |-> NoExc, outcome |-> NoExc,
     acquired |-> 0, released |-> 0, afterRecovery |-> FALSE,
     cancel_sent |-> FALSE]

\* After construction (ratelimit.py:33-34, concurrencylimit.py:13); no call
\* made yet.
InitLimits ==
    /\ state = "normal"
    /\ backoff_until = 0
    /\ semaphore = Capacity
    /\ call = [c \in Callers |-> InitCall]

InitClient ==
    /\ InitLimits
    /\ rateLimitedLeft = MaxRateLimited
    /\ errorsLeft = MaxErrors
    /\ cancelsLeft = MaxCancels

InitGather ==
    /\ gpc = "start"
    /\ gmode = "none"
    /\ task = [t \in Tasks |->
                 [status |-> "new", progress |-> 0, cancel_requested |-> FALSE,
                  cancel_sent |-> FALSE, retrying |-> FALSE,
                  remaining_retries |-> 0, retry_sleep |-> FALSE]]
    /\ outer = [kind |-> "pending", exc |-> NoExc, results |-> <<>>]
    /\ gout = [exc |-> NoExc, results |-> <<>>]
    /\ failOrder = <<>>
    /\ doneOrder = <<>>

\* No mutating call made yet.  request_id numbers the requests the server
\* accepted for the call; 0 stands for none.
InitMutation ==
    /\ post = [m \in Mutators |-> InitCall]
    /\ poll = [m \in Mutators |-> InitCall]
    /\ mut = [m \in Mutators |->
                [request_id |-> 0, accepted |-> 0, issued |-> 0, observed |-> 0,
                 completed |-> 0, returned |-> 0]]
    /\ pendingLeft = MaxPending

\* ---- reimport.py: the snapshot and the remote table ----
\* The code compares names and ids for equality only and never looks at a
\* cell, so the snapshot's names are fixed to "a", column i has id i and the
\* cell of row r in column i holds <<r, i>>; what the server reports varies.
NoFormula == "none"
NoAnswer == "none"

\* A column of the snapshot: the calculated flag and the formula are two
\* fields of the exported file, none derived from the other.
SnapshotColumns(n) ==
    {cs \in [1..n -> [id : 1..MaxColumns, name : {"a"}, calculated : BOOLEAN,
                      formula : {NoFormula, "f"}]] :
        \A i \in 1..n : cs[i].id = i}

\* Every row has as many cells as the table has columns.
SnapshotRows(n) == [r \in 1..NumRows |-> [i \in 1..n |-> <<r, i>>]]

Snapshots ==
    UNION {[name : {"a"}, columns : SnapshotColumns(n), rows : {SnapshotRows(n)}] :
               n \in 0..MaxColumns}

\* What GET /tables/{id} answers (TableAPI.name, TableAPI.type).
TableAnswers == [name : {"a", "b"}, type : {"table", "view"}]

\* What GET /tables/{id}/columns answers: columns with distinct ids
\* (ColumnAPI.id, .name, .calculated).
ColumnsAnswers ==
    {cs \in SUBSET [id : 1..MaxColumns, name : {"a", "b"}, calculated : BOOLEAN] :
        \A x, y \in cs : x.id = y.id => x = y}

InitChild ==
    [pc |-> "getTable", table_api |-> NoAnswer, columns_api |-> NoAnswer,
     checks |-> 0, mpc |-> "none", deletes |-> 0, inserts |-> 0,
     payload |-> NoAnswer]

\* No reimport is running.
InitReimport ==
    /\ rphase = "idle"
    /\ snap = [t \in Tables |-> CHOOSE s \in Snapshots : s.columns = <<>>]
    /\ rt = [t \in Tables |-> InitChild]

\* ---- export.py: documents, tables and their progress bars ----
\* ProgressBar._total starts as None (progress.py:8-10), written -1 here.
NoTotal == -1

\* _export_doc of one document: its position, the number of tables the
\* server holds (remote) and collect has appended so far (tables), the
\* fields of its ProgressBar, and one _export_table task per table.
InitDoc ==
    [pc |-> "unborn", remote |-> 0, tables |-> 0,
     total |-> NoTotal, current |-> 0,
     tpc |-> [t \in Tables |-> "unborn"]]

\* ---- export.py: the files of one table (_export_rows) ----
\* A task of the tree is <<path, row, extension>>: row 0 and extension ""
\* where there is none.
ExportRows == <<"_export_rows", 0, "">>
RawRows == <<"rows", 0, "">>

\* The tasks of _write_file: table.csv, table.html, and the .json and .yaml
\* file of the table and of every row.
WriteFiles ==
    {<<"table.csv", 0, "">>, <<"table.html", 0, "">>}
        \cup {<<"table", 0, e>> : e \in {"json", "yaml"}}
        \cup {<<"rows", i, e>> : i \in 1..NumRows, e \in {"json", "yaml"}}

\* With them the tasks that gather: _export_rows, _write_raw_json_row_files
\* and one _write_structured_data_to_file for the table and for every row.
WriteNodes ==
    {ExportRows, RawRows, <<"table", 0, "">>}
        \cup {<<"rows", i, "">> : i \in 1..NumRows} \cup WriteFiles

\* The coroutines a task hands to its gather call.
Children(n) ==
    IF n = ExportRows
    THEN {RawRows, <<"table.csv", 0, "">>, <<"table.html", 0, "">>, <<"table", 0, "">>}
    ELSE IF n = RawRows THEN {<<"rows", i, "">> : i \in 1..NumRows}
    ELSE IF n \in WriteNodes \ WriteFiles THEN {<<n[1], n[2], e>> : e \in {"json", "yaml"}}
    ELSE {}

\* No export is running.
InitExport ==
    /\ export = [pc |-> "idle", remote |-> 0, documents |-> 0]
    /\ edoc = [d \in 1..NumDocs |-> InitDoc]
    /\ wpc = [n \in WriteNodes |-> "unborn"]
    /\ etable = [gather |-> "idle",
                 task |-> [t \in Tables |->
                             [pc |-> "unborn", columns |-> "none", rows |-> "none"]]]

Init == InitClient /\ InitGather /\ InitMutation /\ InitReimport /\ InitExport

\* ---- AdaptiveRateLimit.__call__.inner ----
\* Each operator runs the code of one task from a resumption to its next
\* suspension and yields [call |-> the task's frame, state |-> _state].

\* Mutant: lines 52-55 missing, a caller arriving while the window is open
\* does not wait for it to close.
LoopTop_NoBackoffWait(r, st, bu) ==
    IF st = "recover"
    THEN [call |-> [r EXCEPT !.pc = "parked", !.timer = ParkSleep,
                             !.is_backoff = FALSE],
          state |-> st]
    ELSE IF st = "backoff" /\ bu = 0
    THEN [call |-> [r EXCEPT !.pc = "running", !.timer = 0,
                             !.is_backoff = TRUE],
          state |-> "recover"]
    ELSE [call |-> [r EXCEPT !.pc = "running", !.timer = 0,
                             !.is_backoff = FALSE],
          state |-> st]

\* Lines 45-83, from the top of `while True` with no pending wait: park while
\* another task recovers, wait out the backoff window, or invoke func.  When
\* _wait_backoff finds nothing left to wait it returns without suspending, so
\* _state is still backoff at line 61 and this task becomes the probe.
LoopTop(r, st, bu) ==
    IF st = "recover"
    THEN [call |-> [r EXCEPT !.pc = "parked", !.timer = ParkSleep,
                             !.is_backoff = FALSE],
          state |-> st]
    ELSE IF st = "backoff"
    THEN IF bu > 0
         THEN [call |-> [r EXCEPT !.pc = "backoff", !.timer = bu,
                                  !.is_backoff = TRUE],
               state |-> st]
         ELSE [call |-> [r EXCEPT !.pc = "running", !.timer = 0,
                                  !.is_backoff = TRUE],
               state |-> "recover"]
    ELSE [call |-> [r EXCEPT !.pc = "running", !.timer = 0,
                             !.is_backoff = FALSE],
          state |-> st]

\* Mutant: lines 57-60 missing, a waker takes the probe role although another
\* task holds it.
AfterWaitBackoff_NoRecoverCheck(r, st, bu) ==
    IF bu > 0
    THEN [call |-> [r EXCEPT !.pc = "backoff", !.timer = bu], state |-> st]
    ELSE IF st \in {"backoff", "recover"}
    THEN [call |-> [r EXCEPT !.pc = "running", !.timer = 0], state |-> "recover"]
    ELSE LoopTop(r, st, bu)

\* Lines 123-127 after a sleep of _wait_backoff, then lines 57-67.
AfterWaitBackoff(r, st, bu) ==
    IF bu > 0
    THEN [call |-> [r EXCEPT !.pc = "backoff", !.timer = bu], state |-> st]
    ELSE IF st = "recover"
    THEN LoopTop(r, st, bu)
    ELSE IF st = "backoff"
    THEN [call |-> [r EXCEPT !.pc = "running", !.timer = 0], state |-> "recover"]
    ELSE LoopTop(r, st, bu)

\* Mutant: line 88 missing, a successful probe leaves the state alone.
AfterSuccess_NoReset(r, st) == st

\* Mutant: line 84 missing, every successful call writes normal.
AfterSuccess_Always(r, st) == "normal"

\* Lines 83-90: func returned.
AfterSuccess(r, st) == IF r.is_backoff THEN "normal" ELSE st

\* Mutant: lines 98-100 missing, a 429 during another task's recovery starts
\* a new backoff window.
AfterRateLimited_NoRecoverCase(r, st) == [state |-> "backoff", extend |-> TRUE]

\* Mutant: line 100 missing, a 429 during another task's recovery falls
\* through to line 105.
AfterRateLimited_RecoverExtends(r, st) ==
    IF r.is_backoff \/ st = "normal"
    THEN [state |-> "backoff", extend |-> TRUE]
    ELSE [state |-> st, extend |-> TRUE]

\* Lines 91-105: func raised the backoff exception.  The result says whether
\* _backoff_until is written (line 105) or the handler left by `continue`.
AfterRateLimited(r, st) ==
    IF r.is_backoff THEN [state |-> "backoff", extend |-> TRUE]
    ELSE IF st = "normal" THEN [state |-> "backoff", extend |-> TRUE]
    ELSE IF st = "recover" THEN [state |-> st, extend |-> FALSE]
    ELSE [state |-> st, extend |-> TRUE]

\* Mutant: the except clause of line 91 matches nothing.
IsBackoffException_Never(e) == FALSE

\* Line 91, `except self._backoff_exception`, with the class the client
\* passes (client.py:40).
IsBackoffException(e) == e[1] = "TooManyRequests"

\* Mutant: the permit is given back on a normal return only.
Exit_NoReleaseOnError(r, result) ==
    [r EXCEPT !.pc = "done", !.timer = 0, !.outcome = result, !.exc = NoExc,
              !.released = IF result[1] = "ok" THEN @ + 1 ELSE @]

\* ---- ConcurrencyLimit.__call__.inner: leaving `async with` ----
Exit(r, result) ==
    [r EXCEPT !.pc = "done", !.timer = 0, !.outcome = result, !.exc = NoExc,
              !.released = @ + 1]

\* Mutant: gives up one attempt early (`<= 0` for `< 0`).
RetryExcept_OffByOne(r, e) ==
    LET r1 == [r EXCEPT !.remaining_retries = @ - 1]
    IN  IF r1.remaining_retries <= 0
        THEN Exit(r1, e)
        ELSE [r1 EXCEPT !.pc = "retrySleep", !.timer = RetrySleep]

\* Mutant: gives up with an error of its own instead of `raise`.
RetryExcept_Wraps(r, e) ==
    LET r1 == [r EXCEPT !.remaining_retries = @ - 1]
    IN  IF r1.remaining_retries < 0
        THEN Exit(r1, <<"RetriesExhausted", r.attempts>>)
        ELSE [r1 EXCEPT !.pc = "retrySleep", !.timer = RetrySleep]

\* Mutant: the permit is given back for the pause between two attempts.
RetryExcept_ReleasesPermit(r, e) ==
    LET r1 == [r EXCEPT !.remaining_retries = @ - 1]
    IN  IF r1.remaining_retries < 0
        THEN Exit(r1, e)
        ELSE [r1 EXCEPT !.pc = "retrySleep", !.timer = RetrySleep,
                        !.released = @ + 1]

\* ---- retry.decorator.inner ----
\* Lines 21-29: the except clause, entered with the exception e of func.
RetryExcept(r, e) ==
    LET r1 == [r EXCEPT !.remaining_retries = @ - 1]
    IN  IF r1.remaining_retries < 0
        THEN Exit(r1, e)
        ELSE [r1 EXCEPT !.pc = "retrySleep", !.timer = RetrySleep]

\* Line 20: func returned.
RetryReturn(r) == Exit(r, Ok(r.attempts))

\* Line 20: (re)invoke func, the rate-limited inner.
RetryInvoke(r, st, bu) == LoopTop([r EXCEPT !.attempts = @ + 1], st, bu)

\* The rate-limited inner ends: it returns (ratelimit.py:90) or an exception
\* leaves it (ratelimit.py:48, :55, :112, :118, :119).  fails and lastAttempt
\* record, on func's side, how the attempts of retry ended.
InnerReturns(r) == RetryReturn([r EXCEPT !.lastAttempt = Ok(r.attempts)])

InnerRaises(r, e) ==
    RetryExcept([r EXCEPT !.fails = @ + 1, !.lastAttempt = e, !.exc = NoExc], e)

Recovered == \E c \in Callers :
    call[c].pc = "done" /\ call[c].outcome[1] = "ok" /\ call[c].is_backoff

SemAfter(c) ==
    semaphore - (call'[c].acquired - call[c].acquired)
              + (call'[c].released - call[c].released)

\* Mutant: acquire never blocks.
CanAcquire_Always(sem) == TRUE

\* concurrencylimit.py:18: Semaphore.acquire does not block.
CanAcquire(sem) == sem > 0

\* concurrencylimit.py:18 with a free permit, then retry.py:17-20.
Enter(r, st, bu) ==
    RetryInvoke([r EXCEPT !.acquired = @ + 1, !.remaining_retries = MaxRetries],
                st, bu)

\* A caller awaits the wrapped function.
Call(c) ==
    /\ call[c].pc = "idle"
    /\ LET r == [call[c] EXCEPT !.afterRecovery = Recovered]
           n == IF CanAcquire(semaphore)
                THEN Enter(r, state, backoff_until)
                ELSE [call |-> [r EXCEPT !.pc = "acquire"], state |-> state]
       IN  /\ call' = [call EXCEPT ![c] = n.call]
           /\ state' = n.state
    /\ semaphore' = SemAfter(c)
    /\ UNCHANGED <<backoff_until, rateLimitedLeft, errorsLeft, cancelsLeft, gatherVars, reimportVars, exportVars, mutationVars>>

\* A task waiting in Semaphore.acquire gets a permit.
Admit(c) ==
    /\ call[c].pc = "acquire"
    /\ CanAcquire(semaphore)
    /\ LET n == Enter(call[c], state, backoff_until)
       IN  /\ call' = [call EXCEPT ![c] = n.call]
           /\ state' = n.state
    /\ semaphore' = SemAfter(c)
    /\ UNCHANGED <<backoff_until, rateLimitedLeft, errorsLeft, cancelsLeft, gatherVars, reimportVars, exportVars, mutationVars>>

\* ratelimit.py:48 ends.
WakeParked(c) ==
    /\ call[c].pc = "parked" /\ call[c].timer = 0
    /\ LET n == LoopTop(call[c], state, backoff_until)
       IN  /\ call' = [call EXCEPT ![c] = n.call]
           /\ state' = n.state
    /\ UNCHANGED <<backoff_until, semaphore, rateLimitedLeft, errorsLeft, cancelsLeft, gatherVars, reimportVars, exportVars, mutationVars>>

\* ratelimit.py:126 ends.
WakeBackoff(c) ==
    /\ call[c].pc = "backoff" /\ call[c].timer = 0
    /\ LET n == AfterWaitBackoff(call[c], state, backoff_until)
       IN  /\ call' = [call EXCEPT ![c] = n.call]
           /\ state' = n.state
    /\ UNCHANGED <<backoff_until, semaphore, rateLimitedLeft, errorsLeft, cancelsLeft, gatherVars, reimportVars, exportVars, mutationVars>>

\* The request succeeds.
RespondOk(c) ==
    /\ call[c].pc = "running"
    /\ state' = AfterSuccess(call[c], state)
    /\ call' = [call EXCEPT ![c] = InnerReturns(call[c])]
    /\ semaphore' = SemAfter(c)
    /\ UNCHANGED <<backoff_until, rateLimitedLeft, errorsLeft, cancelsLeft, gatherVars, reimportVars, exportVars, mutationVars>>

\* Mutant: lines 108-118 missing, the probe re-raises at once.
AfterError_NoDelay(r, e) == InnerRaises(r, e)

\* Lines 106-119: func raised e and the bare except caught it.
AfterError(r, e) ==
    IF r.is_backoff
    THEN [r EXCEPT !.pc = "errSleep", !.timer = ErrSleep, !.exc = e]
    ELSE InnerRaises(r, e)

\* Mutant: line 105 missing, the window is never written.
AfterRaise_NoWrite(r, e, st, bu) ==
    IF IsBackoffException(e)
    THEN LET h == AfterRateLimited(r, st)
             n == LoopTop(r, h.state, bu)
         IN  [call |-> n.call, state |-> n.state, backoff_until |-> bu]
    ELSE [call |-> AfterError(r, e), state |-> st, backoff_until |-> bu]

\* Lines 83-119: func raised e.  Yields the task's frame, _state and
\* _backoff_until at the task's next suspension.
AfterRaise(r, e, st, bu) ==
    IF IsBackoffException(e)
    THEN LET h == AfterRateLimited(r, st)
             until == IF h.extend THEN BackoffInterval ELSE bu
             n == LoopTop(r, h.state, until)
         IN  [call |-> n.call, state |-> n.state, backoff_until |-> until]
    ELSE [call |-> AfterError(r, e), state |-> st, backoff_until |-> bu]

Raise(c, e) ==
    LET n == AfterRaise(call[c], e, state, backoff_until)
    IN  /\ call' = [call EXCEPT ![c] = n.call]
        /\ state' = n.state
        /\ backoff_until' = n.backoff_until
        /\ semaphore' = SemAfter(c)

\* The request is answered 429: TooManyRequests (client.py:155-160).
RespondRateLimited(c) ==
    /\ call[c].pc = "running"
    /\ rateLimitedLeft > 0
    /\ rateLimitedLeft' = rateLimitedLeft - 1
    /\ Raise(c, TooManyRequests(call[c].attempts))
    /\ UNCHANGED <<errorsLeft, cancelsLeft, gatherVars, reimportVars, exportVars, mutationVars>>

\* The request fails with any other error (client.py:62-70, :155-164).
RespondError(c) ==
    /\ call[c].pc = "running"
    /\ errorsLeft > 0
    /\ errorsLeft' = errorsLeft - 1
    /\ Raise(c, Err(call[c].attempts))
    /\ UNCHANGED <<rateLimitedLeft, cancelsLeft, gatherVars, reimportVars, exportVars, mutationVars>>

\* ratelimit.py:112 ends; lines 116-118.
WakeErrSleep(c) ==
    /\ call[c].pc = "errSleep" /\ call[c].timer = 0
    /\ state' = "backoff"
    /\ call' = [call EXCEPT ![c] = [@ EXCEPT !.pc = "cedeSleep", !.timer = CedeSleep]]
    /\ UNCHANGED <<backoff_until, semaphore, rateLimitedLeft, errorsLeft, cancelsLeft, gatherVars, reimportVars, exportVars, mutationVars>>

\* ratelimit.py:118 ends; line 119 re-raises.
WakeCedeSleep(c) ==
    /\ call[c].pc = "cedeSleep" /\ call[c].timer = 0
    /\ call' = [call EXCEPT ![c] = InnerRaises(call[c], call[c].exc)]
    /\ semaphore' = SemAfter(c)
    /\ UNCHANGED <<state, backoff_until, rateLimitedLeft, errorsLeft, cancelsLeft, gatherVars, reimportVars, exportVars, mutationVars>>

\* retry.py:29 ends; the loop invokes func again.
WakeRetrySleep(c) ==
    /\ call[c].pc = "retrySleep" /\ call[c].timer = 0
    /\ LET n == RetryInvoke(call[c], state, backoff_until)
       IN  /\ call' = [call EXCEPT ![c] = n.call]
           /\ state' = n.state
    /\ UNCHANGED <<backoff_until, semaphore, rateLimitedLeft, errorsLeft, cancelsLeft, gatherVars, reimportVars, exportVars, mutationVars>>

\* Task.cancel() on a suspended task: CancelledError is raised at the await
\* the task is suspended in and handled by whatever encloses that await.
\*   acquire    concurrencylimit.py:18, no permit taken, nothing to release
\*   parked     ratelimit.py:48, outside the try: out of inner, into retry
\*   backoff    ratelimit.py:126, outside the try: out of inner, into retry
\*   running    ratelimit.py:83, caught by the bare except of line 106
\*   errSleep   ratelimit.py:112, inside the handler: leaves it at once
\*   cedeSleep  ratelimit.py:118, inside the handler: leaves it at once
\*   retrySleep retry.py:29, inside retry's handler: out of retry
OnCancel(r) ==
    LET e == Cancelled(r.attempts) IN
    CASE r.pc = "acquire" -> [r EXCEPT !.pc = "done", !.outcome = Cancelled(0)]
      [] r.pc \in {"parked", "backoff", "errSleep", "cedeSleep"} -> InnerRaises(r, e)
      [] r.pc = "running" -> AfterError(r, e)
      [] r.pc = "retrySleep" -> Exit(r, Cancelled(0))

Cancel(c) ==
    /\ call[c].pc \notin {"idle", "done"}
    /\ cancelsLeft > 0
    /\ cancelsLeft' = cancelsLeft - 1
    /\ call' = [call EXCEPT ![c] = [OnCancel(call[c]) EXCEPT !.cancel_sent = TRUE]]
    /\ semaphore' = SemAfter(c)
    /\ UNCHANGED <<state, backoff_until, rateLimitedLeft, errorsLeft, gatherVars, reimportVars, exportVars, mutationVars>>

\* One second passes.
Tick ==
    /\ \/ backoff_until > 0
       \/ \E c \in Callers : call[c].timer > 0
       \/ \E m \in Mutators : post[m].timer > 0 \/ poll[m].timer > 0
    /\ backoff_until' = Max(backoff_until - 1, 0)
    /\ call' = [c \in Callers |-> [call[c] EXCEPT !.timer = Max(@ - 1, 0)]]
    /\ post' = [m \in Mutators |-> [post[m] EXCEPT !.timer = Max(@ - 1, 0)]]
    /\ poll' = [m \in Mutators |-> [poll[m] EXCEPT !.timer = Max(@ - 1, 0)]]
    /\ UNCHANGED <<state, semaphore, rateLimitedLeft, errorsLeft, cancelsLeft,
                   gatherVars, reimportVars, exportVars, mut, pendingLeft>>

Next ==
    \/ Tick
    \/ \E c \in Callers :
        \/ Call(c) \/ Admit(c)
        \/ WakeParked(c) \/ WakeBackoff(c)
        \/ RespondOk(c) \/ RespondRateLimited(c) \/ RespondError(c)
        \/ WakeErrSleep(c) \/ WakeCedeSleep(c) \/ WakeRetrySleep(c)
        \/ Cancel(c)

Spec == Init /\ [][Next]_vars

\* The scenario of the liveness claim: the server answers 429 once, nothing
\* else fails, nobody cancels.  The event loop runs every task that is ready
\* and the clock advances; whether and when a caller calls is left open.
InitLive ==
    /\ InitLimits
    /\ rateLimitedLeft = 1
    /\ errorsLeft = 0
    /\ cancelsLeft = 0
    /\ InitGather
    /\ InitMutation
    /\ InitReimport
    /\ InitExport

NextLive ==
    \/ Tick
    \/ \E c \in Callers :
        \/ Call(c) \/ Admit(c)
        \/ WakeParked(c) \/ WakeBackoff(c)
        \/ RespondOk(c) \/ RespondRateLimited(c)

FairLive ==
    /\ WF_vars(Tick)
    /\ \A c \in Callers :
        /\ WF_vars(Admit(c))
        /\ WF_vars(WakeParked(c))
        /\ WF_vars(WakeBackoff(c))
        /\ WF_vars(RespondOk(c))

LiveSpec == InitLive /\ [][NextLive]_vars /\ FairLive

\* ---- Client.post / Client.delete (client.py:104-147) ----
\* post and delete are _concurrency_limit(retry(5)(_request_limit(body))):
\* the frame post[m] runs the same wrappers as call[c].  The body sends the
\* mutating request and then polls /mutationStatus through Client._get_item,
\* which is retry(5)(_request_limit(...)) on the same limiter and takes no
\* permit: the frame poll[m].  post[m].pc is "polling" while the status query
\* runs and "pollSleep" during the pause of client.py:147.

PermitsAfter(old, new) ==
    semaphore - (new.acquired - old.acquired) + (new.released - old.released)

\* Mutant: on_issued is not called.
OnAccepted_NoCallback(mr) ==
    [mr EXCEPT !.accepted = @ + 1, !.request_id = mr.accepted + 1]

\* client.py:114-117, :130-133: the server accepted the request (202) and
\* named it; on_issued() is called.
OnAccepted(mr) ==
    [mr EXCEPT !.accepted = @ + 1, !.request_id = mr.accepted + 1,
               !.issued = @ + 1]

\* client.py:143, :146: the answer of a status query for the current id.
OnStatus(mr, completed) ==
    IF completed THEN [mr EXCEPT !.observed = mr.request_id] ELSE mr

\* client.py:121, :137 and reimport.py:131-132, :143-144: the call returns
\* its request id and the caller fires the "completed" callback.
OnReturned(mr) ==
    [mr EXCEPT !.returned = mr.request_id, !.completed = @ + 1]

\* The body of post ends inside _request_limit (ratelimit.py:83-119), retry
\* and the gate: it returned (result is Ok) or raised result.
BodyEnds(o, result, st, bu) ==
    IF result[1] = "ok"
    THEN [call |-> InnerReturns(o), state |-> AfterSuccess(o, st),
          backoff_until |-> bu]
    ELSE AfterRaise(o, result, st, bu)

\* Mutant: the status query goes through get_item and asks the gate for a
\* permit of its own.
StartPoll_ThroughGate(st, bu) ==
    [call |-> [InitCall EXCEPT !.pc = "acquire"], state |-> st]

\* client.py:140: _get_item is called (retry.py:17-20, then the limiter).
StartPoll(st, bu) == RetryInvoke(InitCall, st, bu)

\* Mutant: the loop of client.py:146 ends after the first status query.
Completed_Always(completed) == TRUE

\* client.py:146: the condition of the polling loop.
Completed(completed) == completed

\* The status query of m went on to frame pf with the limiter at st and bu.
\* When pf is done, _get_item returned (completed is the flag of the answer)
\* or raised, and the body goes on: client.py:146-147, :119-121.
PollMoves(m, pf, st, bu, completed) ==
    IF pf.pc # "done"
    THEN /\ poll' = [poll EXCEPT ![m] = pf]
         /\ state' = st
         /\ backoff_until' = bu
         /\ UNCHANGED <<post, mut, semaphore>>
    ELSE IF pf.outcome[1] = "ok" /\ ~Completed(completed)
    THEN /\ poll' = [poll EXCEPT ![m] = InitCall]
         /\ post' = [post EXCEPT ![m].pc = "pollSleep", ![m].timer = PollSleep]
         /\ state' = st
         /\ backoff_until' = bu
         /\ UNCHANGED <<mut, semaphore>>
    ELSE LET ok == pf.outcome[1] = "ok"
             b == BodyEnds(post[m],
                           IF ok THEN Ok(post[m].attempts) ELSE pf.outcome,
                           st, bu)
             mr == OnStatus(mut[m], ok /\ completed)
         IN  /\ poll' = [poll EXCEPT ![m] = InitCall]
             /\ post' = [post EXCEPT ![m] = b.call]
             /\ state' = b.state
             /\ backoff_until' = b.backoff_until
             /\ mut' = [mut EXCEPT ![m] =
                          IF b.call.pc = "done" /\ b.call.outcome[1] = "ok"
                          THEN OnReturned(mr) ELSE mr]
             /\ semaphore' = PermitsAfter(post[m], b.call)

\* The wrappers of post[m] went on to n = [call, state, backoff_until].
PostMoves(m, n) ==
    /\ post' = [post EXCEPT ![m] = n.call]
    /\ state' = n.state
    /\ backoff_until' = n.backoff_until
    /\ semaphore' = PermitsAfter(post[m], n.call)

WithUntil(n, bu) ==
    [call |-> n.call, state |-> n.state, backoff_until |-> bu]

\* reimport awaits table_api.delete_rows / insert_rows.
PostCall(m) ==
    /\ post[m].pc = "idle"
    /\ PostMoves(m, IF CanAcquire(semaphore)
                    THEN WithUntil(Enter(post[m], state, backoff_until), backoff_until)
                    ELSE [call |-> [post[m] EXCEPT !.pc = "acquire"],
                          state |-> state, backoff_until |-> backoff_until])
    /\ UNCHANGED <<call, rateLimitedLeft, errorsLeft, cancelsLeft, gatherVars, reimportVars, exportVars,
                   poll, mut, pendingLeft>>

PostAdmit(m) ==
    /\ post[m].pc = "acquire"
    /\ CanAcquire(semaphore)
    /\ PostMoves(m, WithUntil(Enter(post[m], state, backoff_until), backoff_until))
    /\ UNCHANGED <<call, rateLimitedLeft, errorsLeft, cancelsLeft, gatherVars, reimportVars, exportVars,
                   poll, mut, pendingLeft>>

PostWakeParked(m) ==
    /\ post[m].pc = "parked" /\ post[m].timer = 0
    /\ PostMoves(m, WithUntil(LoopTop(post[m], state, backoff_until), backoff_until))
    /\ UNCHANGED <<call, rateLimitedLeft, errorsLeft, cancelsLeft, gatherVars, reimportVars, exportVars,
                   poll, mut, pendingLeft>>

PostWakeBackoff(m) ==
    /\ post[m].pc = "backoff" /\ post[m].timer = 0
    /\ PostMoves(m, WithUntil(AfterWaitBackoff(post[m], state, backoff_until),
                              backoff_until))
    /\ UNCHANGED <<call, rateLimitedLeft, errorsLeft, cancelsLeft, gatherVars, reimportVars, exportVars,
                   poll, mut, pendingLeft>>

\* ratelimit.py:112 ends; lines 116-118.
PostWakeErrSleep(m) ==
    /\ post[m].pc = "errSleep" /\ post[m].timer = 0
    /\ PostMoves(m, [call |-> [post[m] EXCEPT !.pc = "cedeSleep", !.timer = CedeSleep],
                     state |-> "backoff", backoff_until |-> backoff_until])
    /\ UNCHANGED <<call, rateLimitedLeft, errorsLeft, cancelsLeft, gatherVars, reimportVars, exportVars,
                   poll, mut, pendingLeft>>

PostWakeCedeSleep(m) ==
    /\ post[m].pc = "cedeSleep" /\ post[m].timer = 0
    /\ PostMoves(m, [call |-> InnerRaises(post[m], post[m].exc),
                     state |-> state, backoff_until |-> backoff_until])
    /\ UNCHANGED <<call, rateLimitedLeft, errorsLeft, cancelsLeft, gatherVars, reimportVars, exportVars,
                   poll, mut, pendingLeft>>

\* retry.py:29 ends: the body runs again and sends the mutating request again.
PostWakeRetrySleep(m) ==
    /\ post[m].pc = "retrySleep" /\ post[m].timer = 0
    /\ PostMoves(m, WithUntil(RetryInvoke(post[m], state, backoff_until),
                              backoff_until))
    /\ UNCHANGED <<call, rateLimitedLeft, errorsLeft, cancelsLeft, gatherVars, reimportVars, exportVars,
                   poll, mut, pendingLeft>>

\* The mutating request is answered 202: client.py:114-119, up to the first
\* suspension of the first status query.
PostAccepted(m) ==
    /\ post[m].pc = "running"
    /\ LET n == StartPoll(state, backoff_until)
       IN  /\ mut' = [mut EXCEPT ![m] = OnAccepted(@)]
           /\ post' = [post EXCEPT ![m].pc = "polling"]
           /\ poll' = [poll EXCEPT ![m] = n.call]
           /\ state' = n.state
    /\ UNCHANGED <<call, backoff_until, semaphore, rateLimitedLeft, errorsLeft,
                   cancelsLeft, gatherVars, reimportVars, exportVars, pendingLeft>>

PostRateLimited(m) ==
    /\ post[m].pc = "running"
    /\ rateLimitedLeft > 0
    /\ rateLimitedLeft' = rateLimitedLeft - 1
    /\ PostMoves(m, AfterRaise(post[m], TooManyRequests(post[m].attempts),
                               state, backoff_until))
    /\ UNCHANGED <<call, errorsLeft, cancelsLeft, gatherVars, reimportVars, exportVars, poll, mut, pendingLeft>>

\* Any other failure of the mutating request (client.py:166-178).
PostError(m) ==
    /\ post[m].pc = "running"
    /\ errorsLeft > 0
    /\ errorsLeft' = errorsLeft - 1
    /\ PostMoves(m, AfterRaise(post[m], Err(post[m].attempts), state, backoff_until))
    /\ UNCHANGED <<call, rateLimitedLeft, cancelsLeft, gatherVars, reimportVars, exportVars, poll, mut, pendingLeft>>

\* client.py:147 ends: the next status query.
WakePollSleep(m) ==
    /\ post[m].pc = "pollSleep" /\ post[m].timer = 0
    /\ LET n == StartPoll(state, backoff_until)
       IN  /\ post' = [post EXCEPT ![m].pc = "polling"]
           /\ poll' = [poll EXCEPT ![m] = n.call]
           /\ state' = n.state
    /\ UNCHANGED <<call, backoff_until, semaphore, rateLimitedLeft, errorsLeft,
                   cancelsLeft, gatherVars, reimportVars, exportVars, mut, pendingLeft>>

\* The status query is answered, completed: true.
PollCompleted(m) ==
    /\ poll[m].pc = "running"
    /\ PollMoves(m, InnerReturns(poll[m]), AfterSuccess(poll[m], state),
                 backoff_until, TRUE)
    /\ UNCHANGED <<call, rateLimitedLeft, errorsLeft, cancelsLeft, gatherVars, reimportVars, exportVars,
                   pendingLeft>>

\* The status query is answered, completed: false.
PollPending(m) ==
    /\ poll[m].pc = "running"
    /\ pendingLeft > 0
    /\ pendingLeft' = pendingLeft - 1
    /\ PollMoves(m, InnerReturns(poll[m]), AfterSuccess(poll[m], state),
                 backoff_until, FALSE)
    /\ UNCHANGED <<call, rateLimitedLeft, errorsLeft, cancelsLeft, gatherVars, reimportVars, exportVars>>

\* The status query is answered without a "completed" field: _get_item
\* returns and client.py:141-142 raises in the body of post.
PollMalformed(m) ==
    /\ poll[m].pc = "running"
    /\ errorsLeft > 0
    /\ errorsLeft' = errorsLeft - 1
    /\ PollMoves(m, [InnerReturns(poll[m]) EXCEPT !.outcome = Err(post[m].attempts)],
                 AfterSuccess(poll[m], state), backoff_until, FALSE)
    /\ UNCHANGED <<call, rateLimitedLeft, cancelsLeft, gatherVars, reimportVars, exportVars, pendingLeft>>

PollRateLimited(m) ==
    /\ poll[m].pc = "running"
    /\ rateLimitedLeft > 0
    /\ rateLimitedLeft' = rateLimitedLeft - 1
    /\ LET n == AfterRaise(poll[m], TooManyRequests(poll[m].attempts),
                           state, backoff_until)
       IN  PollMoves(m, n.call, n.state, n.backoff_until, FALSE)
    /\ UNCHANGED <<call, errorsLeft, cancelsLeft, gatherVars, reimportVars, exportVars, pendingLeft>>

PollError(m) ==
    /\ poll[m].pc = "running"
    /\ errorsLeft > 0
    /\ errorsLeft' = errorsLeft - 1
    /\ LET n == AfterRaise(poll[m], Err(post[m].attempts), state, backoff_until)
       IN  PollMoves(m, n.call, n.state, n.backoff_until, FALSE)
    /\ UNCHANGED <<call, rateLimitedLeft, cancelsLeft, gatherVars, reimportVars, exportVars, pendingLeft>>

PollWakeParked(m) ==
    /\ poll[m].pc = "parked" /\ poll[m].timer = 0
    /\ LET n == LoopTop(poll[m], state, backoff_until)
       IN  PollMoves(m, n.call, n.state, backoff_until, FALSE)
    /\ UNCHANGED <<call, rateLimitedLeft, errorsLeft, cancelsLeft, gatherVars, reimportVars, exportVars,
                   pendingLeft>>

PollWakeBackoff(m) ==
    /\ poll[m].pc = "backoff" /\ poll[m].timer = 0
    /\ LET n == AfterWaitBackoff(poll[m], state, backoff_until)
       IN  PollMoves(m, n.call, n.state, backoff_until, FALSE)
    /\ UNCHANGED <<call, rateLimitedLeft, errorsLeft, cancelsLeft, gatherVars, reimportVars, exportVars,
                   pendingLeft>>

PollWakeErrSleep(m) ==
    /\ poll[m].pc = "errSleep" /\ poll[m].timer = 0
    /\ PollMoves(m, [poll[m] EXCEPT !.pc = "cedeSleep", !.timer = CedeSleep],
                 "backoff", backoff_until, FALSE)
    /\ UNCHANGED <<call, rateLimitedLeft, errorsLeft, cancelsLeft, gatherVars, reimportVars, exportVars,
                   pendingLeft>>

PollWakeCedeSleep(m) ==
    /\ poll[m].pc = "cedeSleep" /\ poll[m].timer = 0
    /\ PollMoves(m, InnerRaises(poll[m], poll[m].exc), state, backoff_until, FALSE)
    /\ UNCHANGED <<call, rateLimitedLeft, errorsLeft, cancelsLeft, gatherVars, reimportVars, exportVars,
                   pendingLeft>>

PollWakeRetrySleep(m) ==
    /\ poll[m].pc = "retrySleep" /\ poll[m].timer = 0
    /\ LET n == RetryInvoke(poll[m], state, backoff_until)
       IN  PollMoves(m, n.call, n.state, backoff_until, FALSE)
    /\ UNCHANGED <<call, rateLimitedLeft, errorsLeft, cancelsLeft, gatherVars, reimportVars, exportVars,
                   pendingLeft>>

NextMutation ==
    \/ Tick
    \/ \E m \in Mutators :
        \/ PostCall(m) \/ PostAdmit(m)
        \/ PostWakeParked(m) \/ PostWakeBackoff(m)
        \/ PostWakeErrSleep(m) \/ PostWakeCedeSleep(m) \/ PostWakeRetrySleep(m)
        \/ PostAccepted(m) \/ PostRateLimited(m) \/ PostError(m)
        \/ WakePollSleep(m)
        \/ PollCompleted(m) \/ PollPending(m) \/ PollMalformed(m)
        \/ PollRateLimited(m) \/ PollError(m)
        \/ PollWakeParked(m) \/ PollWakeBackoff(m)
        \/ PollWakeErrSleep(m) \/ PollWakeCedeSleep(m) \/ PollWakeRetrySleep(m)

\* Three mutating calls on a gate of Capacity permits; the server answers 429
\* at most once, fails otherwise at most MaxErrors times and answers
\* "completed: false" at most MaxPending times; nobody cancels.
InitMutationRun ==
    /\ InitLimits
    /\ rateLimitedLeft = 1
    /\ errorsLeft = MaxErrors
    /\ cancelsLeft = 0
    /\ InitGather
    /\ InitMutation
    /\ InitReimport
    /\ InitExport

SpecMutation == InitMutationRun /\ [][NextMutation]_vars

\* ---- _check_table_is_compatible (reimport.py:100-106) ----
TableProblem(table_api, table) ==
    IF table_api.name # table.name THEN "name"
    ELSE IF table_api.type # "table" THEN "type"
    ELSE "none"

ColumnProblem_NoFlag(columns_api, column) ==
    IF ~ \E c \in columns_api : c.id = column.id THEN "missing"
    ELSE LET server_column == CHOOSE c \in columns_api : c.id = column.id
         IN  IF column.name # server_column.name THEN "name"
             ELSE "none"

\* ---- _check_columns_are_compatible (reimport.py:108-120) ----
\* One pass of the loop body for one snapshot column.
ColumnProblem(columns_api, column) ==
    IF ~ \E c \in columns_api : c.id = column.id THEN "missing"
    ELSE LET server_column == CHOOSE c \in columns_api : c.id = column.id
         IN  IF column.name # server_column.name THEN "name"
             ELSE IF (~column.calculated) /\ server_column.calculated THEN "manual"
             ELSE IF column.calculated /\ ~server_column.calculated THEN "calculated"
             ELSE "none"

RECURSIVE ColumnsProblem(_, _, _)
\* The loop of line 111 from column i on: the first problem ends it.
ColumnsProblem(columns_api, columns, i) ==
    IF i > Len(columns) THEN "none"
    ELSE IF ColumnProblem(columns_api, columns[i]) # "none"
         THEN ColumnProblem(columns_api, columns[i])
         ELSE ColumnsProblem(columns_api, columns, i + 1)

OnIncompatible_Retried(r) ==
    IF r.checks <= MaxRetries
    THEN [r EXCEPT !.pc = "getTable", !.table_api = NoAnswer, !.columns_api = NoAnswer]
    ELSE [r EXCEPT !.pc = "failed", !.table_api = NoAnswer, !.columns_api = NoAnswer]

\* The raise of lines 102, 104, 113-120 leaves _load_table_api_and_check_schema:
\* nothing on the way catches it.  The answers are of no use any more.
OnIncompatible(r) ==
    [r EXCEPT !.pc = "failed", !.table_api = NoAnswer, !.columns_api = NoAnswer]

\* Line 97-98: the check returned; of table_api only its address is used later.
OnCompatible(r) ==
    [r EXCEPT !.pc = "passed", !.table_api = NoAnswer, !.columns_api = NoAnswer]

\* ---- _insert_rows.format_row (reimport.py:135-141) and
\*      TableAPI.insert_rows.format_row (api/table.py:61-64) ----
FormatRow(columns, cells) ==
    {[column |-> columns[i].id, value |-> cells[i]] :
        i \in {j \in 1..Len(cells) : columns[j].formula = NoFormula}}

FormatRows(table) ==
    [r \in 1..Len(table.rows) |-> FormatRow(table.columns, table.rows[r])]

GatherReturns_Any(pcs, ok) == \E t \in Tables : pcs[t] = ok

\* asyncio.gather(*futures) gives its list when every task returned (gather.py:11).
GatherReturns(pcs, ok) == \A t \in Tables : pcs[t] = ok

CheckLive(r) == r.pc \in {"getTable", "gotTable", "getColumns", "gotColumns"}
ReimportLive(r) == r.mpc \in {"listRows", "deleting", "inserting"}

\* ---- the tasks of reimport.py:83: _load_table_api_and_check_schema ----
\* The server answers doc.get_table (line 94).
AnswerTable(t) ==
    /\ rt[t].pc = "getTable"
    /\ \E a \in TableAnswers :
        rt' = [rt EXCEPT ![t].pc = "gotTable", ![t].table_api = a]
    /\ UNCHANGED <<rphase, snap, clientVars, gatherVars, mutationVars, exportVars>>

\* Lines 94-106 up to the await of line 109.
CheckTable(t) ==
    /\ rt[t].pc = "gotTable"
    /\ LET r == [rt[t] EXCEPT !.checks = @ + 1]
       IN  rt' = [rt EXCEPT ![t] =
                    IF TableProblem(r.table_api, snap[t]) # "none"
                    THEN OnIncompatible(r)
                    ELSE [r EXCEPT !.pc = "getColumns"]]
    /\ UNCHANGED <<rphase, snap, clientVars, gatherVars, mutationVars, exportVars>>

\* The server answers get_all_columns (line 109).
AnswerColumns(t) ==
    /\ rt[t].pc = "getColumns"
    /\ \E a \in ColumnsAnswers :
        rt' = [rt EXCEPT ![t].pc = "gotColumns", ![t].columns_api = a]
    /\ UNCHANGED <<rphase, snap, clientVars, gatherVars, mutationVars, exportVars>>

\* Lines 109-120, then 97-98.
CheckColumns(t) ==
    /\ rt[t].pc = "gotColumns"
    /\ rt' = [rt EXCEPT ![t] =
                IF ColumnsProblem(rt[t].columns_api, snap[t].columns, 1) # "none"
                THEN OnIncompatible(rt[t])
                ELSE OnCompatible(rt[t])]
    /\ UNCHANGED <<rphase, snap, clientVars, gatherVars, mutationVars, exportVars>>

\* A client call of the checking task raises (its retries are used up, or
\* the error is one the client does not retry).
CheckRequestFails(t) ==
    /\ rt[t].pc \in {"getTable", "getColumns"}
    /\ rt' = [rt EXCEPT ![t].pc = "error"]
    /\ UNCHANGED <<rphase, snap, clientVars, gatherVars, mutationVars, exportVars>>

\* ---- the tasks of reimport.py:84: _reimport_table ----
\* get_all_rows answered (line 128); line 131 sends the delete request.
SendDelete(t) ==
    /\ rt[t].mpc = "listRows"
    /\ rt' = [rt EXCEPT ![t].mpc = "deleting", ![t].deletes = @ + 1]
    /\ UNCHANGED <<rphase, snap, clientVars, gatherVars, mutationVars, exportVars>>

\* Mutant: the insert does not wait for the listing and the deletion, as if
\* _delete_all_rows and _insert_rows were gathered.
SendInsert_Concurrent(t) ==
    /\ rt[t].mpc \in {"listRows", "deleting"}
    /\ rt' = [rt EXCEPT ![t].mpc = "inserting", ![t].inserts = @ + 1,
                        ![t].payload = FormatRows(snap[t])]
    /\ UNCHANGED <<rphase, snap, clientVars, gatherVars, mutationVars, exportVars>>

\* The deletion completed (line 132); lines 142-143 send the insert request.
SendInsert(t) ==
    /\ rt[t].mpc = "deleting"
    /\ rt' = [rt EXCEPT ![t].mpc = "inserting", ![t].inserts = @ + 1,
                        ![t].payload = FormatRows(snap[t])]
    /\ UNCHANGED <<rphase, snap, clientVars, gatherVars, mutationVars, exportVars>>

\* The insertion completed (line 144).
InsertCompleted(t) ==
    /\ rt[t].mpc = "inserting"
    /\ rt' = [rt EXCEPT ![t].mpc = "done"]
    /\ UNCHANGED <<rphase, snap, clientVars, gatherVars, mutationVars, exportVars>>

\* A client call of the reimporting task raises.
ReimportRequestFails(t) ==
    /\ ReimportLive(rt[t])
    /\ rt' = [rt EXCEPT ![t].mpc = "error"]
    /\ UNCHANGED <<rphase, snap, clientVars, gatherVars, mutationVars, exportVars>>

\* ---- reimport_doc (reimport.py:70-85) ----
\* Line 83 returned: line 84 creates one _reimport_table task per table.
ChecksReturn ==
    /\ rphase = "check"
    /\ GatherReturns([t \in Tables |-> rt[t].pc], "passed")
    /\ rphase' = "reimport"
    /\ rt' = [t \in Tables |-> [rt[t] EXCEPT !.mpc = "listRows"]]
    /\ UNCHANGED <<snap, clientVars, gatherVars, mutationVars, exportVars>>

\* Line 84 returned.
ReimportReturns ==
    /\ rphase = "reimport"
    /\ GatherReturns([t \in Tables |-> rt[t].mpc], "done")
    /\ rphase' = "done"
    /\ UNCHANGED <<snap, rt, clientVars, gatherVars, mutationVars, exportVars>>

\* A cancelled task whose client call catches the CancelledError in retry
\* (retry.py:21) and sends its request again.
CheckResent(r) ==
    IF r.pc = "gotTable" THEN [r EXCEPT !.pc = "getTable", !.table_api = NoAnswer]
    ELSE IF r.pc = "gotColumns" THEN [r EXCEPT !.pc = "getColumns", !.columns_api = NoAnswer]
    ELSE r

ReimportResent(r) ==
    IF r.mpc = "deleting" THEN [r EXCEPT !.deletes = @ + 1]
    ELSE IF r.mpc = "inserting" THEN [r EXCEPT !.inserts = @ + 1]
    ELSE r

\* gather.py:12-15 under line 83: a checking task raised; every task is
\* cancelled and the error is raised out of reimport_doc.  A cancelled task
\* ends, or its client call swallows the cancellation and goes on.
ChecksRaise ==
    /\ rphase = "check"
    /\ \E t \in Tables : rt[t].pc \in {"failed", "error"}
    /\ rphase' = "failed"
    /\ \E swallowed \in SUBSET {t \in Tables : CheckLive(rt[t])} :
        rt' = [t \in Tables |->
                 IF t \in swallowed THEN CheckResent(rt[t])
                 ELSE IF CheckLive(rt[t])
                      THEN [rt[t] EXCEPT !.pc = "cancelled", !.table_api = NoAnswer,
                                         !.columns_api = NoAnswer]
                      ELSE rt[t]]
    /\ UNCHANGED <<snap, clientVars, gatherVars, mutationVars, exportVars>>

\* gather.py:12-15 under line 84.
ReimportRaises ==
    /\ rphase = "reimport"
    /\ \E t \in Tables : rt[t].mpc = "error"
    /\ rphase' = "failed"
    /\ \E swallowed \in SUBSET {t \in Tables : ReimportLive(rt[t])} :
        rt' = [t \in Tables |->
                 IF t \in swallowed THEN ReimportResent(rt[t])
                 ELSE IF ReimportLive(rt[t]) THEN [rt[t] EXCEPT !.mpc = "cancelled"]
                 ELSE rt[t]]
    /\ UNCHANGED <<snap, clientVars, gatherVars, mutationVars, exportVars>>

NextReimport ==
    \/ ChecksReturn
    \/ ChecksRaise
    \/ ReimportReturns
    \/ ReimportRaises
    \/ \E t \in Tables :
        \/ AnswerTable(t) \/ CheckTable(t)
        \/ AnswerColumns(t) \/ CheckColumns(t)
        \/ CheckRequestFails(t)
        \/ SendDelete(t) \/ SendInsert(t) \/ InsertCompleted(t)
        \/ ReimportRequestFails(t)

\* reimport_doc after line 79: the snapshots are read, line 83 has created
\* one checking task per table.
InitReimportRun ==
    /\ InitClient
    /\ InitGather
    /\ InitMutation
    /\ rphase = "check"
    /\ snap \in [Tables -> Snapshots]
    /\ rt = [t \in Tables |-> InitChild]
    /\ InitExport

SpecReimport == InitReimportRun /\ [][NextReimport]_vars

\* ---- ProgressBar.increment_total (progress.py:23-28) ----
increment_total(r) == [r EXCEPT !.total = IF @ = NoTotal THEN 1 ELSE @ + 1]

\* ---- collect (generator.py:7-13) ----
\* Mutant: every item gets its task at once, as concurrent_async_for does.
CollectItem_Concurrent(r) ==
    [r EXCEPT !.tables = @ + 1,
              !.total = IF @ = NoTotal THEN 1 ELSE @ + 1,
              !.tpc[r.tables + 1] = "created"]

\* One round of the loop with the callback of export.py:60: the item is
\* appended, the total of the bar grows by one.
CollectItem(r) == increment_total([r EXCEPT !.tables = @ + 1])

\* ---- gather_raise_first_error_after_all_tasks_complete (gather.py:19-28) ----
\* Mutant: the helper stops waiting at the first task that fails.
AllDone_FirstError(pcs, S) ==
    \/ \E x \in S : pcs[x] = "raised"
    \/ \A x \in S : pcs[x] = "returned"

\* asyncio.gather(..., return_exceptions=True) is done when every task is
\* (line 21).
AllDone(pcs, S) == \A x \in S : pcs[x] \in {"returned", "raised"}

\* Lines 22-28: the first error is raised, the results are returned if none.
Outcome(pcs, S) ==
    IF \A x \in S : pcs[x] = "returned" THEN "returned" ELSE "raised"

\* ---- export_all_docs (export.py:36-43) ----
\* collect appends one more document of api.get_all_docs() (line 42).
CollectDoc ==
    /\ export.pc = "collect"
    /\ export.documents < export.remote
    /\ export' = [export EXCEPT !.documents = @ + 1]
    /\ UNCHANGED <<edoc, wpc, etable, clientVars, gatherVars, mutationVars, reimportVars>>

\* The generator is exhausted; line 43 creates one _export_doc task per
\* document.
DocsCollected ==
    /\ export.pc = "collect"
    /\ export.documents = export.remote
    /\ export' = [export EXCEPT !.pc = "gather"]
    /\ edoc' = [d \in 1..NumDocs |->
                 IF d <= export.documents
                 THEN [edoc[d] EXCEPT !.pc = "created"] ELSE edoc[d]]
    /\ UNCHANGED <<wpc, etable, clientVars, gatherVars, mutationVars, reimportVars>>

\* A request of the enumeration fails for good: line 42 raises.
CollectDocsFails ==
    /\ export.pc = "collect"
    /\ export' = [export EXCEPT !.pc = "raised"]
    /\ UNCHANGED <<edoc, wpc, etable, clientVars, gatherVars, mutationVars, reimportVars>>

\* Line 43 after every _export_doc task has ended.
ExportReturns ==
    /\ export.pc = "gather"
    /\ LET pcs == [d \in 1..NumDocs |-> edoc[d].pc]
           S == 1..export.documents
       IN  /\ AllDone(pcs, S)
           /\ export' = [export EXCEPT !.pc = Outcome(pcs, S)]
    /\ UNCHANGED <<edoc, wpc, etable, clientVars, gatherVars, mutationVars, reimportVars>>

\* ---- _export_doc (export.py:51-61) ----
\* The task starts: lines 52-54 make the folder and write api_object.
BeginDoc(d) ==
    /\ edoc[d].pc = "created"
    /\ edoc' = [edoc EXCEPT ![d].pc = "api_object"]
    /\ UNCHANGED <<export, wpc, etable, clientVars, gatherVars, mutationVars, reimportVars>>

\* api_object is written; line 56 makes the bar, line 60 starts collecting.
DocWritten(d) ==
    /\ edoc[d].pc = "api_object"
    /\ edoc' = [edoc EXCEPT ![d].pc = "collect", ![d].total = NoTotal,
                            ![d].current = 0]
    /\ UNCHANGED <<export, wpc, etable, clientVars, gatherVars, mutationVars, reimportVars>>

\* Writing api_object or a request of the enumeration fails: line 54 or
\* line 60 raises.
DocFails(d) ==
    /\ edoc[d].pc \in {"api_object", "collect"}
    /\ edoc' = [edoc EXCEPT ![d].pc = "raised"]
    /\ UNCHANGED <<export, wpc, etable, clientVars, gatherVars, mutationVars, reimportVars>>

\* collect appends one more table of doc.get_all_tables() (line 60).
CollectTable(d) ==
    /\ edoc[d].pc = "collect"
    /\ edoc[d].tables < edoc[d].remote
    /\ edoc' = [edoc EXCEPT ![d] = CollectItem(@)]
    /\ UNCHANGED <<export, wpc, etable, clientVars, gatherVars, mutationVars, reimportVars>>

\* The generator is exhausted; line 61 creates one _export_table task per
\* table.
TablesCollected(d) ==
    /\ edoc[d].pc = "collect"
    /\ edoc[d].tables = edoc[d].remote
    /\ edoc' = [edoc EXCEPT ![d].pc = "gather",
                            ![d].tpc = [t \in Tables |->
                                IF t <= edoc[d].tables /\ @[t] = "unborn"
                                THEN "created" ELSE @[t]]]
    /\ UNCHANGED <<export, wpc, etable, clientVars, gatherVars, mutationVars, reimportVars>>

\* Line 61 after every _export_table task has ended.
DocReturns(d) ==
    /\ edoc[d].pc = "gather"
    /\ LET S == 1..edoc[d].tables
       IN  /\ AllDone(edoc[d].tpc, S)
           /\ edoc' = [edoc EXCEPT ![d].pc = Outcome(edoc[d].tpc, S)]
    /\ UNCHANGED <<export, wpc, etable, clientVars, gatherVars, mutationVars, reimportVars>>

\* ---- _export_table (export.py:63-76) ----
BeginTable(d, t) ==
    /\ edoc[d].tpc[t] = "created"
    /\ edoc' = [edoc EXCEPT ![d].tpc[t] = "running"]
    /\ UNCHANGED <<export, wpc, etable, clientVars, gatherVars, mutationVars, reimportVars>>

\* Everything of the table is fetched and written; line 76 counts it
\* (ProgressBar.increment_progress, progress.py:19-21).
TableExported(d, t) ==
    /\ edoc[d].tpc[t] = "running"
    /\ edoc' = [edoc EXCEPT ![d].tpc[t] = "returned", ![d].current = @ + 1]
    /\ UNCHANGED <<export, wpc, etable, clientVars, gatherVars, mutationVars, reimportVars>>

\* A request or a write of the table fails: line 76 is not reached.
TableFails(d, t) ==
    /\ edoc[d].tpc[t] = "running"
    /\ edoc' = [edoc EXCEPT ![d].tpc[t] = "raised"]
    /\ UNCHANGED <<export, wpc, etable, clientVars, gatherVars, mutationVars, reimportVars>>

NextExport ==
    \/ CollectDoc
    \/ DocsCollected
    \/ CollectDocsFails
    \/ ExportReturns
    \/ \E d \in 1..NumDocs :
        \/ BeginDoc(d)
        \/ DocWritten(d)
        \/ DocFails(d)
        \/ CollectTable(d)
        \/ TablesCollected(d)
        \/ DocReturns(d)
        \/ \E t \in Tables :
            \/ BeginTable(d, t)
            \/ TableExported(d, t)
            \/ TableFails(d, t)

\* export_all_docs at line 42: the server holds some documents, each with
\* some tables; nothing is enumerated yet.
InitExportRun ==
    /\ InitClient
    /\ InitGather
    /\ InitMutation
    /\ InitReimport
    /\ \E n \in 0..NumDocs :
        export = [pc |-> "collect", remote |-> n, documents |-> 0]
    /\ edoc \in {f \in [1..NumDocs -> {[InitDoc EXCEPT !.remote = k] : k \in 0..NumTables}] :
                   \A d \in 1..NumDocs : d > export.remote => f[d].remote = 0}
    /\ wpc = [n \in WriteNodes |-> "unborn"]
    /\ etable = [gather |-> "idle",
                 task |-> [t \in Tables |->
                             [pc |-> "unborn", columns |-> "none", rows |-> "none"]]]

SpecExport == InitExportRun /\ [][NextExport]_vars

\* ---- _export_rows and the writes below it (export.py:87-106, 138-147) ----
\* A task that gathers starts: it creates its tasks (lines 93, 103, 144);
\* _write_raw_json_row_files makes the folder first (line 101).
BeginNode(n) ==
    /\ n \notin WriteFiles
    /\ wpc[n] = "created"
    /\ wpc' = [x \in WriteNodes |->
                IF x = n THEN "running"
                ELSE IF x \in Children(n) THEN "created" ELSE wpc[x]]
    /\ UNCHANGED <<export, edoc, etable, clientVars, gatherVars, mutationVars, reimportVars>>

\* os.makedirs of line 101 raises: no row file is attempted.
MakedirsFails ==
    /\ wpc[RawRows] = "created"
    /\ wpc' = [wpc EXCEPT ![RawRows] = "raised"]
    /\ UNCHANGED <<export, edoc, etable, clientVars, gatherVars, mutationVars, reimportVars>>

\* _write_file takes a permit of write_semaphore, of which one is held per
\* open file, and opens the file (lines 136-140).
BeginWrite(n) ==
    /\ n \in WriteFiles
    /\ wpc[n] = "created"
    /\ WriteSemaphore - Cardinality({x \in WriteFiles : wpc[x] = "running"}) > 0
    /\ wpc' = [wpc EXCEPT ![n] = "running"]
    /\ UNCHANGED <<export, edoc, etable, clientVars, gatherVars, mutationVars, reimportVars>>

\* The content is written and the file closed, or opening or writing
\* raises; `async with` gives the permit back either way (lines 139-141).
EndWrite(n) ==
    /\ n \in WriteFiles
    /\ wpc[n] = "running"
    /\ \E r \in {"returned", "raised"} : wpc' = [wpc EXCEPT ![n] = r]
    /\ UNCHANGED <<export, edoc, etable, clientVars, gatherVars, mutationVars, reimportVars>>

\* The gather call of a task ends: it returns or raises the first error.
NodeCompletes(n) ==
    /\ n \notin WriteFiles
    /\ wpc[n] = "running"
    /\ AllDone(wpc, Children(n))
    /\ wpc' = [wpc EXCEPT ![n] = Outcome(wpc, Children(n))]
    /\ UNCHANGED <<export, edoc, etable, clientVars, gatherVars, mutationVars, reimportVars>>

NextWrites ==
    \/ MakedirsFails
    \/ \E n \in WriteNodes :
        \/ BeginNode(n)
        \/ BeginWrite(n)
        \/ EndWrite(n)
        \/ NodeCompletes(n)

\* _export_table at line 72: the task of _export_rows is created.
InitWritesRun ==
    /\ InitClient
    /\ InitGather
    /\ InitMutation
    /\ InitReimport
    /\ export = [pc |-> "idle", remote |-> 0, documents |-> 0]
    /\ edoc = [d \in 1..NumDocs |-> InitDoc]
    /\ wpc = [n \in WriteNodes |-> IF n = ExportRows THEN "created" ELSE "unborn"]
    /\ etable = [gather |-> "idle",
                 task |-> [t \in Tables |->
                             [pc |-> "unborn", columns |-> "none", rows |-> "none"]]]

SpecWrites == InitWritesRun /\ [][NextWrites]_vars

\* ---- _export_table and the fan-out over tables (export.py:61, 63-76) ----
\* The task starts: lines 65-67 make the folder and write api_object, which
\* may raise; line 68 hands the column listing and the row listing to
\* asyncio.gather, which makes a task of each.
BeginFetch(t) ==
    /\ etable.task[t].pc = "created"
    /\ \/ etable' = [etable EXCEPT !.task[t] =
                        [pc |-> "fetch", columns |-> "running", rows |-> "running"]]
       \/ etable' = [etable EXCEPT !.task[t].pc = "raised"]
    /\ UNCHANGED <<export, edoc, wpc, clientVars, gatherVars, mutationVars, reimportVars>>

\* One of the two listings ends: collect returns its list or a request of
\* it raises (lines 69-70).  Nothing but its own end stops a listing.
FetchEnds(t) ==
    /\ \E r \in {"returned", "raised"} :
        \/ /\ etable.task[t].columns = "running"
           /\ etable' = [etable EXCEPT !.task[t].columns = r]
        \/ /\ etable.task[t].rows = "running"
           /\ etable' = [etable EXCEPT !.task[t].rows = r]
    /\ UNCHANGED <<export, edoc, wpc, clientVars, gatherVars, mutationVars, reimportVars>>

\* The task runs on.  At line 68, asyncio.gather without return_exceptions
\* raises the first exception of a listing as soon as there is one and
\* returns when both listings returned; the task then writes (line 72).
\* At line 72 the writes end: line 76 is reached or the error is raised.
TableGoesOn(t) ==
    /\ LET r == etable.task[t] IN
       \/ /\ r.pc = "fetch"
          /\ r.columns = "raised" \/ r.rows = "raised"
          /\ etable' = [etable EXCEPT !.task[t].pc = "raised"]
       \/ /\ r.pc = "fetch"
          /\ r.columns = "returned" /\ r.rows = "returned"
          /\ etable' = [etable EXCEPT !.task[t].pc = "write"]
       \/ /\ r.pc = "write"
          /\ \E e \in {"returned", "raised"} :
                etable' = [etable EXCEPT !.task[t].pc = e]
    /\ UNCHANGED <<export, edoc, wpc, clientVars, gatherVars, mutationVars, reimportVars>>

\* Line 61 after every _export_table task has ended.
TablesGathered ==
    /\ etable.gather = "waiting"
    /\ LET pcs == [t \in Tables |-> etable.task[t].pc]
       IN  /\ AllDone(pcs, Tables)
           /\ etable' = [etable EXCEPT !.gather = Outcome(pcs, Tables)]
    /\ UNCHANGED <<export, edoc, wpc, clientVars, gatherVars, mutationVars, reimportVars>>

NextTables ==
    \/ TablesGathered
    \/ \E t \in Tables :
        \/ BeginFetch(t)
        \/ FetchEnds(t)
        \/ TableGoesOn(t)

\* _export_doc at line 61: one _export_table task per table is created.
InitTablesRun ==
    /\ InitClient
    /\ InitGather
    /\ InitMutation
    /\ InitReimport
    /\ export = [pc |-> "idle", remote |-> 0, documents |-> 0]
    /\ edoc = [d \in 1..NumDocs |-> InitDoc]
    /\ wpc = [n \in WriteNodes |-> "unborn"]
    /\ etable = [gather |-> "waiting",
                 task |-> [t \in Tables |->
                             [pc |-> "created", columns |-> "none", rows |-> "none"]]]

SpecTables == InitTablesRun /\ [][NextTables]_vars

\* ======================= claims about the client stack =======================

ProbeRole(c) == call[c].is_backoff /\ call[c].pc \in {"running", "errSleep"}

Inside(c) == call[c].pc \notin {"idle", "acquire", "done"}

NewInvocation(c) == call[c].pc # "running" /\ call'[c].pc = "running"

\* C1: at every instant at most one caller holds the probe role (it wrote
\* recover and has not yet written normal or backoff), and while one holds it
\* the state is recover, so no second caller can make the backoff -> recover
\* transition.
C1_AtMostOneProbe ==
    /\ Cardinality({c \in Callers : ProbeRole(c)}) <= 1
    /\ \A c \in Callers : ProbeRole(c) => state = "recover"

\* Two callers' waits have elapsed: one is the probe, the other woke from its
\* backoff wait, found recover and parked.
C1_Witness ==
    \E c, d \in Callers :
        /\ c # d
        /\ ProbeRole(c)
        /\ call[d].pc = "parked" /\ call[d].attempts = 1 /\ call[d].fails = 0

\* C2: with one 429 and no other failure, every caller that has called
\* eventually returns successfully, and the state ends up normal for good.
C2_Recovers ==
    /\ \A c \in Callers :
          call[c].pc # "idle" ~> (call[c].pc = "done" /\ call[c].outcome[1] = "ok")
    /\ <>[](state = "normal")

\* The 429 happened, a probe succeeded (one caller returned as the probe) and
\* every caller has returned successfully.
C2_Witness ==
    /\ rateLimitedLeft = 0
    /\ state = "normal"
    /\ \A c \in Callers : call[c].pc = "done" /\ call[c].outcome[1] = "ok"
    /\ \E c \in Callers : call[c].is_backoff

\* C3: the backoff exception never leaves the rate-limited wrapper: retry never
\* catches it and no call ends with it; the step in which func raises it
\* consumes no retry and leaves the call waiting inside the limiter.
C3_Absorbed ==
    /\ [](\A c \in Callers :
            /\ call[c].lastAttempt[1] # "TooManyRequests"
            /\ call[c].outcome[1] # "TooManyRequests")
    /\ [][rateLimitedLeft' < rateLimitedLeft =>
            \A c \in Callers :
                /\ call'[c].remaining_retries = call[c].remaining_retries
                /\ call'[c].fails = call[c].fails
                /\ call'[c].attempts = call[c].attempts
                /\ call'[c].pc # call[c].pc => call'[c].pc \in {"backoff", "parked"}
         ]_vars

\* A call got 429 twice and an unrelated error in between, and only the
\* unrelated error reached retry.
C3_Witness ==
    /\ rateLimitedLeft = 0
    /\ \E c \in Callers :
        /\ call[c].pc = "backoff"
        /\ call[c].attempts = 2 /\ call[c].fails = 1
        /\ call[c].remaining_retries = MaxRetries - 1

\* C4: a rate-limit failure in normal opens a window of BackoffInterval; while
\* the window is open no caller starts an invocation; the step that ends it
\* (backoff -> recover) starts exactly one invocation, the probe's; while the
\* probe runs nobody else starts one; the probe's success makes the state
\* normal; a call arriving after that, with a permit free, invokes at once.
C4_Timing ==
    [][/\ (state = "normal" /\ state' = "backoff" => backoff_until' = BackoffInterval)
       /\ (backoff_until > 0 => \A c \in Callers : ~NewInvocation(c))
       /\ (state = "recover" => \A c \in Callers : ~NewInvocation(c))
       /\ (state = "backoff" /\ state' = "recover" =>
              \E c \in Callers :
                  /\ NewInvocation(c) /\ call'[c].is_backoff
                  /\ \A d \in Callers \ {c} : call'[d] = call[d])
       /\ \A c \in Callers :
              /\ (ProbeRole(c) /\ call'[c].outcome[1] = "ok" => state' = "normal")
              /\ (/\ call[c].pc = "idle" /\ call'[c].pc # "idle"
                  /\ state = "normal" /\ semaphore > 0
                  => call'[c].pc = "running" /\ ~call'[c].is_backoff)
      ]_vars

\* A probe has succeeded and a call that arrived afterwards is running its
\* first invocation, while the call whose failure opened the window is done.
C4_Witness ==
    /\ state = "normal"
    /\ rateLimitedLeft < MaxRateLimited
    /\ \E p, c \in Callers :
        /\ call[p].pc = "done" /\ call[p].outcome[1] = "ok" /\ call[p].is_backoff
        /\ call[c].afterRecovery /\ call[c].pc = "running"
        /\ call[c].attempts = 1 /\ ~call[c].is_backoff

\* C5: never more than Capacity callers are inside the wrapped body.
C5_GateBound == Cardinality({c \in Callers : Inside(c)}) <= Capacity

\* The gate is full and a further caller waits for a permit.
C5_Witness ==
    /\ Cardinality({c \in Callers : Inside(c)}) = Capacity
    /\ \E c \in Callers : call[c].pc = "acquire"

\* C6: a call takes at most one permit and gives it back exactly once, when it
\* ends, however it ends; a permit comes back only in a step in which its
\* holder ends; when every call has ended all permits are free.
C6_ReleasedOnce ==
    /\ [](/\ \A c \in Callers :
               /\ call[c].released <= call[c].acquired /\ call[c].acquired <= 1
               /\ Inside(c) => call[c].acquired = 1 /\ call[c].released = 0
               /\ call[c].pc = "done" => call[c].released = call[c].acquired
          /\ (\A c \in Callers : call[c].pc = "done") => semaphore = Capacity)
    /\ [][semaphore' > semaphore =>
            /\ semaphore' = semaphore + 1
            /\ \E c \in Callers :
                /\ Inside(c) /\ call'[c].pc = "done"
                /\ call'[c].released = call[c].released + 1
         ]_vars

\* Every call has ended after holding a permit, one by returning, one by
\* cancellation, one after a failed attempt, and all permits are free.
C6_Witness ==
    /\ \A c \in Callers : call[c].pc = "done" /\ call[c].acquired = 1
    /\ semaphore = Capacity
    /\ \E c \in Callers : call[c].outcome[1] = "ok"
    /\ \E c \in Callers : call[c].outcome[1] = "Cancelled"
    /\ \E c \in Callers : call[c].fails > 0

\* C7: a call that returns made one attempt more than the attempts that failed,
\* at most MaxRetries of them; a call that gives up (it raises the failure of
\* an attempt) made exactly MaxRetries + 1 attempts, all failed.
C7_Attempts ==
    \A c \in Callers :
        /\ call[c].fails <= call[c].attempts /\ call[c].attempts <= MaxRetries + 1
        /\ call[c].pc = "done" /\ call[c].outcome[1] = "ok" =>
              call[c].attempts = call[c].fails + 1 /\ call[c].fails <= MaxRetries
        /\ call[c].pc = "done" /\ call[c].outcome[2] >= 1 /\ call[c].outcome[1] # "ok" =>
              call[c].attempts = MaxRetries + 1 /\ call[c].fails = MaxRetries + 1

\* One call returned after MaxRetries failed attempts, another gave up.
C7_Witness ==
    \E c, d \in Callers :
        /\ call[c].pc = "done" /\ call[c].outcome[1] = "ok"
        /\ call[c].fails = MaxRetries /\ call[c].attempts = MaxRetries + 1
        /\ call[d].pc = "done" /\ call[d].outcome[1] = "Error"
        /\ call[d].attempts = MaxRetries + 1

\* C8: a call that gives up after MaxRetries + 1 failed attempts raises the
\* exception its last attempt raised, the very one (kind and origin).
C8_LastFailure ==
    \A c \in Callers :
        call[c].pc = "done" /\ call[c].fails = MaxRetries + 1 =>
            /\ call[c].outcome = call[c].lastAttempt
            /\ call[c].outcome[2] = call[c].attempts
            /\ call[c].outcome[1] \in {"Error", "Cancelled"}

\* A call gave up: its first attempt was cut by a cancellation, its last
\* attempt failed with an error, and the error is what it raised.
C8_Witness ==
    \E c \in Callers :
        /\ call[c].pc = "done" /\ call[c].fails = MaxRetries + 1
        /\ call[c].outcome = Err(MaxRetries + 1)
        /\ cancelsLeft < MaxCancels /\ errorsLeft = MaxErrors - 1

\* C26: when the probe's invocation fails with an error other than the
\* backoff exception, the state stays recover during a delay of ErrSleep, is
\* then set to backoff with backoff_until left as it is, and after a further
\* delay of CedeSleep the probe's call fails with that same error, which
\* reaches retry as the failure of the attempt.
C26_UnrelatedFailure ==
    [][\A c \in Callers :
          /\ (/\ ProbeRole(c) /\ call[c].pc = "running"
              /\ errorsLeft' < errorsLeft /\ call'[c] # call[c])
                => /\ call'[c].pc = "errSleep" /\ call'[c].timer = ErrSleep
                   /\ call'[c].exc = Err(call[c].attempts)
                   /\ call'[c].fails = call[c].fails
                   /\ state = "recover" /\ state' = "recover"
                   /\ backoff_until' = backoff_until
          /\ (/\ call[c].pc = "errSleep" /\ call'[c].pc # "errSleep"
              /\ cancelsLeft' = cancelsLeft)
                => /\ call[c].timer = 0
                   /\ state = "recover" /\ state' = "backoff"
                   /\ backoff_until' = backoff_until
                   /\ call'[c].pc = "cedeSleep" /\ call'[c].timer = CedeSleep
                   /\ call'[c].exc = call[c].exc
          /\ (/\ call[c].pc = "cedeSleep" /\ call'[c].pc # "cedeSleep"
              /\ cancelsLeft' = cancelsLeft)
                => /\ call[c].timer = 0
                   /\ call'[c].lastAttempt = call[c].exc
                   /\ call'[c].fails = call[c].fails + 1
                   /\ state' = state
                   /\ backoff_until' = backoff_until
      ]_vars

\* A probe failed with an unrelated error, went through both delays and its
\* error has just reached retry, which starts its pause.
C26_Witness ==
    \E c \in Callers :
        /\ call[c].is_backoff /\ ~call[c].cancel_sent
        /\ call[c].lastAttempt[1] = "Error"
        /\ call[c].pc = "retrySleep" /\ call[c].timer = RetrySleep

\* C27: when a call that is not the probe gets the backoff exception while
\* the state is recover, neither the state nor backoff_until changes and no
\* failure reaches retry; the call parks, and a parked call leaves the park
\* only when its pause is over and the state is no longer recover.
C27_IgnoredWhileRecovering ==
    [][\A c \in Callers :
          /\ (/\ call[c].pc = "running" /\ ~call[c].is_backoff
              /\ state = "recover"
              /\ rateLimitedLeft' < rateLimitedLeft /\ call'[c] # call[c])
                => /\ state' = state
                   /\ backoff_until' = backoff_until
                   /\ call'[c].pc = "parked" /\ call'[c].timer = ParkSleep
                   /\ call'[c].fails = call[c].fails
                   /\ call'[c].remaining_retries = call[c].remaining_retries
          /\ (/\ call[c].pc = "parked" /\ call'[c].pc # "parked"
              /\ cancelsLeft' = cancelsLeft)
                => call[c].timer = 0 /\ state # "recover"
          /\ (/\ call[c].pc = "parked" /\ call[c].timer = 0 /\ state = "recover"
              /\ call'[c] # call[c] /\ cancelsLeft' = cancelsLeft)
                => call'[c].pc = "parked" /\ call'[c].timer = ParkSleep
      ]_vars

\* Both 429 answers are used up, a probe is in its invocation, and a call
\* that has made one attempt and has not failed is parked.
C27_Witness ==
    /\ rateLimitedLeft = 0
    /\ state = "recover"
    /\ backoff_until = 0
    /\ \E c, d \in Callers :
        /\ ProbeRole(c) /\ call[c].pc = "running"
        /\ call[d].pc = "parked" /\ call[d].timer = ParkSleep
        /\ call[d].attempts = 1 /\ call[d].fails = 0

\* C28: the state becomes normal only in the step in which the probe's
\* invocation succeeds, and then from recover; it never goes from backoff to
\* normal, and the success of a call that is not the probe leaves the state
\* as it is.
C28_NormalOnlyByProbe ==
    [][/\ (state' = "normal" /\ state # "normal")
            => /\ state = "recover"
               /\ \E c \in Callers :
                    /\ ProbeRole(c) /\ call[c].pc = "running"
                    /\ call'[c].lastAttempt = Ok(call[c].attempts)
       /\ \A c \in Callers :
            (/\ call[c].pc = "running" /\ ~call[c].is_backoff
             /\ call'[c].pc = "done" /\ call'[c].outcome[1] = "ok")
                => state' = state
      ]_vars

\* A probe has succeeded and the state is normal again, while a call that
\* started before the backoff and is not the probe has returned as well.
C28_Witness ==
    /\ state = "normal"
    /\ rateLimitedLeft < MaxRateLimited
    /\ \E c, d \in Callers :
        /\ call[c].pc = "done" /\ call[c].outcome[1] = "ok" /\ call[c].is_backoff
        /\ call[d].pc = "done" /\ call[d].outcome[1] = "ok" /\ ~call[d].is_backoff
        /\ ~call[d].afterRecovery

\* C30 as stated: only the caller holding the probe role writes the
\* limiter's state and backoff_until: every step that changes one of them
\* (other than the passing of time) is a step of a caller that holds the
\* probe role before it or takes it by it.
C30_OnlyProbeWrites ==
    [][(~Tick /\ (state' # state \/ backoff_until' # backoff_until))
          => \E c \in Callers :
                /\ call'[c] # call[c]
                /\ \/ ProbeRole(c)
                   \/ call'[c].is_backoff /\ call'[c].pc = "running"
      ]_vars

\* C30 amended: while the state is recover only the probe writes the shared
\* state.  Otherwise a write is made by the caller that takes the probe role
\* (backoff -> recover, backoff_until untouched), or by a caller that is not
\* the probe and whose invocation got the 429 in state normal or backoff: it
\* writes state backoff and a new window.  Nobody else writes.
C30_WritesByRole ==
    [][(~Tick /\ (state' # state \/ backoff_until' # backoff_until))
          => \E c \in Callers :
                /\ call'[c] # call[c]
                /\ \/ ProbeRole(c)
                   \/ /\ state = "backoff" /\ state' = "recover"
                      /\ backoff_until' = backoff_until
                      /\ call'[c].is_backoff /\ call'[c].pc = "running"
                   \/ /\ call[c].pc = "running" /\ ~call[c].is_backoff
                      /\ rateLimitedLeft' < rateLimitedLeft
                      /\ state \in {"normal", "backoff"}
                      /\ state' = "backoff"
                      /\ backoff_until' = BackoffInterval
                /\ state = "recover" => ProbeRole(c)
      ]_vars

\* A caller that is not the probe has just written the state: its request
\* got the first 429 in state normal, and it waits for the window it opened.
C30_Witness ==
    /\ state = "backoff"
    /\ backoff_until = BackoffInterval
    /\ rateLimitedLeft = MaxRateLimited - 1
    /\ \E c \in Callers :
        /\ call[c].pc = "backoff" /\ call[c].timer = BackoffInterval
        /\ call[c].attempts = 1 /\ call[c].fails = 0

\* C25: the limiter is never left in recover after its probe has ended:
\* whenever the state is recover some caller holds the probe role (it is in
\* its invocation or in the delay after an unrelated failure), whichever way
\* the probe's invocation ends, cancellation included.
C25_RecoverHasProbe ==
    state = "recover" => \E c \in Callers : ProbeRole(c)

\* ---- utils/gather.py ----
\* A submitted coroutine runs TaskLen steps, every step a side effect followed
\* by a suspension point, and then returns.  Any step may raise, and a
\* cancellation requested while the task is pending is raised in it before it
\* runs again.  The coroutines the program submits are of two kinds: plain
\* ones (reimport.py:87-91, export.py:138-141), which an exception ends, and
\* ones whose steps are calls of the client (reimport.py:93-98, :123-144),
\* where the exception is raised inside retry's try block.

\* retry.py:19-24 around the call a task is suspended in: the exception is
\* caught, and goes no further unless no retry is left.  The sleep of line 29
\* is outside the try block.
Swallows(r) ==
    r.retrying /\ ~r.retry_sleep /\ ~(r.remaining_retries - 1 < 0)

TaskOutcome(t, tk) ==
    CASE tk[t].status = "ok" -> Ok(t)
      [] tk[t].status = "failed" -> Err(t)
      [] tk[t].status = "cancelled" -> Cancelled(t)
      [] OTHER -> NoExc

Terminal(tk, t) == tk[t].status \in {"ok", "failed", "cancelled"}

\* Mutant: return_exceptions is ignored, the first failure settles the future.
ChildDone_FirstException(o, mode, t, tk) ==
    IF o.kind # "pending" THEN o
    ELSE IF tk[t].status \in {"failed", "cancelled"}
    THEN [kind |-> "exception", exc |-> TaskOutcome(t, tk), results |-> <<>>]
    ELSE IF \A u \in Tasks : Terminal(tk, u)
    THEN [kind |-> "result", exc |-> NoExc,
          results |-> [u \in Tasks |-> TaskOutcome(u, tk)]]
    ELSE o

\* Mutant: the results are collected in the order the children ended.
ChildDone_CompletionOrder(o, mode, t, tk) ==
    LET order == Append(doneOrder, t) IN
    IF o.kind # "pending" THEN o
    ELSE IF mode = "cancel" /\ tk[t].status \in {"failed", "cancelled"}
    THEN [kind |-> "exception", exc |-> TaskOutcome(t, tk), results |-> <<>>]
    ELSE IF \A u \in Tasks : Terminal(tk, u)
    THEN [kind |-> "result", exc |-> NoExc,
          results |-> [i \in 1..Len(order) |-> TaskOutcome(order[i], tk)]]
    ELSE o

\* asyncio.gather's bookkeeping when child t is done (gather.py:11 and :21):
\* with return_exceptions=False the first child that raises settles the
\* outer future with its exception; otherwise the outer future is settled
\* with every child's outcome, in submission order, once all are done.
ChildDone(o, mode, t, tk) ==
    IF o.kind # "pending" THEN o
    ELSE IF mode = "cancel" /\ tk[t].status \in {"failed", "cancelled"}
    THEN [kind |-> "exception", exc |-> TaskOutcome(t, tk), results |-> <<>>]
    ELSE IF \A u \in Tasks : Terminal(tk, u)
    THEN [kind |-> "result", exc |-> NoExc,
          results |-> [u \in Tasks |-> TaskOutcome(u, tk)]]
    ELSE o

\* gather.py:10-11 and :20-21: create one task per coroutine, await gather.
Launch(mode) ==
    /\ gpc = "start"
    /\ gpc' = "waiting"
    /\ gmode' = mode
    /\ \E kinds \in [Tasks -> BOOLEAN] :
          task' = [t \in Tasks |->
                      [task[t] EXCEPT !.status = "pending",
                                      !.retrying = kinds[t],
                                      !.remaining_retries = MaxRetries]]
    /\ UNCHANGED <<outer, gout, failOrder, doneOrder, clientVars, mutationVars, reimportVars, exportVars>>

Finish(t, status) ==
    LET tk == [task EXCEPT ![t].status = status] IN
    /\ task' = tk
    /\ outer' = ChildDone(outer, gmode, t, tk)
    /\ failOrder' = IF status = "failed" THEN Append(failOrder, t) ELSE failOrder
    /\ doneOrder' = Append(doneOrder, t)
    /\ UNCHANGED <<gpc, gmode, gout, clientVars, mutationVars, reimportVars, exportVars>>

\* A task runs to its next suspension point.
TaskStep(t) ==
    /\ task[t].status = "pending" /\ ~task[t].cancel_requested
    /\ ~task[t].retry_sleep
    /\ task[t].progress < TaskLen
    /\ task' = [task EXCEPT ![t].progress = @ + 1,
                            ![t].remaining_retries = MaxRetries]
    /\ UNCHANGED <<gpc, gmode, outer, gout, failOrder, doneOrder, clientVars, mutationVars, reimportVars, exportVars>>

TaskReturn(t) ==
    /\ task[t].status = "pending" /\ ~task[t].cancel_requested
    /\ ~task[t].retry_sleep
    /\ task[t].progress = TaskLen
    /\ Finish(t, "ok")

\* retry.py:21-29 inside a task: the exception is caught, the task sleeps.
Retried(t) ==
    /\ task' = [task EXCEPT ![t].remaining_retries = @ - 1,
                            ![t].cancel_requested = FALSE,
                            ![t].retry_sleep = TRUE]
    /\ UNCHANGED <<gpc, gmode, outer, gout, failOrder, doneOrder, clientVars, mutationVars, reimportVars, exportVars>>

\* retry.py:29 ends; the loop makes the call again (line 20).
TaskRetry(t) ==
    /\ task[t].status = "pending" /\ ~task[t].cancel_requested
    /\ task[t].retry_sleep
    /\ task' = [task EXCEPT ![t].retry_sleep = FALSE]
    /\ UNCHANGED <<gpc, gmode, outer, gout, failOrder, doneOrder, clientVars, mutationVars, reimportVars, exportVars>>

\* The call a task is suspended in raises.
TaskRaise(t) ==
    /\ task[t].status = "pending" /\ ~task[t].cancel_requested
    /\ ~task[t].retry_sleep
    /\ IF Swallows(task[t]) THEN Retried(t) ELSE Finish(t, "failed")

\* CancelledError is raised in a task whose cancellation was requested.
TaskCancelled(t) ==
    /\ task[t].status = "pending" /\ task[t].cancel_requested
    /\ IF Swallows(task[t]) THEN Retried(t) ELSE Finish(t, "cancelled")

\* gather.py:14, Task.cancel(): no effect on a task that is done.
\* cancel_sent remembers that the helper cancelled the task.
CancelTask(r) ==
    IF r.status = "pending"
    THEN [r EXCEPT !.cancel_requested = TRUE, !.cancel_sent = TRUE]
    ELSE r

\* gather.py:11-15: the await of gather ends.
ResumeCancelOnFirstError ==
    /\ gpc = "waiting" /\ gmode = "cancel"
    /\ outer.kind # "pending"
    /\ IF outer.kind = "exception"
       THEN /\ task' = [t \in Tasks |-> CancelTask(task[t])]
            /\ gpc' = "raised"
            /\ gout' = [exc |-> outer.exc, results |-> <<>>]
       ELSE /\ gpc' = "returned"
            /\ gout' = [exc |-> NoExc, results |-> outer.results]
            /\ UNCHANGED task
    /\ UNCHANGED <<gmode, outer, failOrder, doneOrder, clientVars, mutationVars, reimportVars, exportVars>>

\* isinstance(result, Exception)
IsException(x) == x[1] = "Error"

\* gather.py:22
ErrorsOf(results) == SelectSeq(results, IsException)

\* Mutant: the error raised is the last of the list.
FirstError_Last(errors) == errors[Len(errors)]

\* gather.py:26
FirstError(errors) == errors[1]

\* gather.py:21-28: the await of gather ends.
ResumeAfterAllComplete ==
    /\ gpc = "waiting" /\ gmode = "complete"
    /\ outer.kind # "pending"
    /\ LET errors == ErrorsOf(outer.results) IN
       IF outer.kind = "exception"
       THEN /\ gpc' = "raised"
            /\ gout' = [exc |-> outer.exc, results |-> <<>>]
       ELSE IF Len(errors) > 0
       THEN /\ gpc' = "raised"
            /\ gout' = [exc |-> FirstError(errors), results |-> <<>>]
       ELSE /\ gpc' = "returned"
            /\ gout' = [exc |-> NoExc, results |-> outer.results]
    /\ UNCHANGED <<gmode, task, outer, failOrder, doneOrder, clientVars, mutationVars, reimportVars, exportVars>>

NextGather ==
    \/ Launch("cancel")
    \/ Launch("complete")
    \/ ResumeCancelOnFirstError
    \/ ResumeAfterAllComplete
    \/ \E t \in Tasks :
        \/ TaskStep(t) \/ TaskReturn(t) \/ TaskRaise(t) \/ TaskRetry(t)
        \/ TaskCancelled(t)

SpecGather == Init /\ [][NextGather]_vars

\* A coroutine given to a helper may also end in CancelledError without the
\* helper having cancelled it: the future it awaits was cancelled, or it
\* cancelled its own task.  Inside retry the error is caught like any other.
TaskEndsCancelled(t) ==
    /\ task[t].status = "pending" /\ ~task[t].cancel_requested
    /\ ~task[t].retry_sleep
    /\ IF Swallows(task[t]) THEN Retried(t) ELSE Finish(t, "cancelled")

NextGatherCancelled ==
    \/ NextGather
    \/ \E t \in Tasks : TaskEndsCancelled(t)

SpecGatherCancelled == Init /\ [][NextGatherCancelled]_vars

\* C13: a call whose cancellation is requested while it is suspended inside
\* the wrappers ends at that suspension point, as cancelled; it starts no
\* further attempt of the wrapped call and sends no further request.
C13_AbandonsWork ==
    /\ [](\A c \in Callers :
            call[c].cancel_sent /\ call[c].pc = "done"
                => call[c].outcome[1] = "Cancelled")
    /\ [][\A c \in Callers :
            /\ (~call[c].cancel_sent /\ call'[c].cancel_sent
                  => call'[c].pc = "done" /\ call'[c].outcome[1] = "Cancelled")
            /\ (call[c].cancel_sent
                  => ~NewInvocation(c) /\ call'[c].attempts = call[c].attempts)
         ]_vars

\* C20: _backoff_until never decreases.  backoff_until holds it relative to
\* the current instant, so the passing of time (Tick) lowers the variable
\* while _backoff_until stays; no other step lowers it, every step that
\* changes it sets it to the current instant plus the interval, and every
\* rate-limit failure of the probe, or of a call while the limiter is in
\* normal or backoff, does so.
C20_NonDecreasing ==
    [][/\ (~Tick => backoff_until' >= backoff_until)
       /\ (~Tick /\ backoff_until' # backoff_until
              => backoff_until' = BackoffInterval)
       /\ \A c \in Callers :
              /\ rateLimitedLeft' < rateLimitedLeft
              /\ call[c].pc = "running" /\ call'[c] # call[c]
              /\ (call[c].is_backoff \/ state # "recover")
              => backoff_until' = BackoffInterval
      ]_vars

\* The window was written again while it was open: a caller that began to
\* wait under the first window has less left to wait than the window has.
C20_Witness ==
    /\ state = "backoff"
    /\ backoff_until = BackoffInterval
    /\ rateLimitedLeft = MaxRateLimited - 2
    /\ \E c \in Callers :
          call[c].pc = "backoff" /\ call[c].timer > 0 /\ call[c].timer < backoff_until

\* C14: a post or delete returns its request id only after a status answer
\* with completed = true was seen for that id; an answer with completed =
\* false leads to a pause of PollSleep and then to the next status query; the
\* call leaves the polling loop only with completion seen or with a failure.
C14_WaitsForCompletion ==
    /\ [](\A m \in Mutators :
            /\ (mut[m].returned # 0 => mut[m].observed = mut[m].returned)
            /\ (post[m].pc = "done" /\ post[m].outcome[1] = "ok"
                  => mut[m].returned # 0 /\ mut[m].returned = mut[m].request_id))
    /\ [][\A m \in Mutators :
            /\ (pendingLeft' < pendingLeft /\ poll[m].pc = "running"
                  /\ poll'[m] # poll[m]
                  => post'[m].pc = "pollSleep" /\ post'[m].timer = PollSleep)
            /\ (post[m].pc = "pollSleep" /\ post'[m].pc # "pollSleep"
                  => /\ post[m].timer = 0
                     /\ post'[m].pc = "polling" /\ poll'[m].pc # "idle")
            /\ (post[m].pc \in {"polling", "pollSleep"}
                  /\ post'[m].pc \notin {"polling", "pollSleep"}
                  => \/ /\ post'[m].pc = "done" /\ post'[m].outcome[1] = "ok"
                        /\ mut'[m].observed = mut'[m].request_id
                     \/ post'[m].exc[1] = "Error"
                     \/ post'[m].lastAttempt[1] = "Error")
         ]_vars

\* A single mutating call returned after the server had answered
\* "completed: false" MaxPending times.
C14_Witness ==
    /\ pendingLeft = 0
    /\ \E m \in Mutators :
          /\ post[m].pc = "done" /\ mut[m].returned # 0
          /\ mut[m].accepted = 1
          /\ \A k \in Mutators \ {m} : post[k].pc = "idle"

\* C15: the "issued" callback fires in the step in which the server accepted
\* the request, before any status query for it; the "completed" callback
\* fires only when completion has been seen for the request; so completed
\* never exceeds issued.
C15_Callbacks ==
    /\ [](\A m \in Mutators :
            /\ mut[m].issued <= mut[m].accepted
            /\ (post[m].pc \in {"polling", "pollSleep"} \/ poll[m].pc # "idle"
                  => mut[m].issued >= 1 /\ mut[m].issued = mut[m].accepted)
            /\ mut[m].completed <= mut[m].issued
            /\ (mut[m].completed > 0
                  => mut[m].observed # 0 /\ mut[m].observed = mut[m].returned))
    /\ [][\A m \in Mutators :
            /\ (mut'[m].issued > mut[m].issued
                  => /\ mut'[m].accepted = mut[m].accepted + 1
                     /\ mut'[m].issued = mut[m].issued + 1
                     /\ post[m].pc = "running" /\ poll[m].pc = "idle")
            /\ (mut'[m].completed > mut[m].completed
                  => /\ mut'[m].observed = mut'[m].request_id
                     /\ mut[m].issued >= 1)
         ]_vars

\* One call has fired both callbacks while another has fired "issued" and is
\* still polling.
C15_Witness ==
    \E m, k \in Mutators :
        /\ mut[m].issued = 1 /\ mut[m].completed = 1
        /\ mut[k].issued = 1 /\ mut[k].completed = 0
        /\ post[k].pc = "pollSleep"

\* ======================= claims about the gather helpers =======================

\* C9: gather_cancel_on_first_error starts all tasks together before any of
\* them runs; once a task has failed it is free to resume whatever the other
\* tasks are doing; when it raises, it raises the failure of the task that
\* failed first and has requested the cancellation of every task still
\* pending; a task that was pending then runs no further step and never
\* produces a result.
C9_CancelOnFirstError ==
    /\ [](gmode = "cancel" =>
            /\ (failOrder # <<>> /\ gpc = "waiting" => ENABLED ResumeCancelOnFirstError)
            /\ (gpc = "raised" =>
                  /\ failOrder # <<>>
                  /\ gout.exc = Err(Head(failOrder))
                  /\ \A t \in Tasks : task[t].status = "pending" => task[t].cancel_sent)
            /\ \A t \in Tasks :
                  task[t].cancel_sent => task[t].status \in {"pending", "cancelled"})
    /\ [][/\ (gpc = "start" /\ gpc' = "waiting" =>
                \A t \in Tasks : task'[t].status = "pending" /\ task'[t].progress = 0)
          /\ \A t \in Tasks :
                task[t].cancel_sent => task'[t].progress = task[t].progress
         ]_vars

\* C10: gather_raise_first_error_after_all_tasks_complete reports (returns or
\* raises) only when every task has ended by itself, returned after all its
\* steps or failed; it never requests a cancellation; after it has reported no
\* task changes any more.
C10_AllComplete ==
    /\ [](gmode = "complete" =>
            /\ \A t \in Tasks :
                  ~task[t].cancel_requested /\ task[t].status # "cancelled"
            /\ (gpc \in {"returned", "raised"} =>
                  \A t \in Tasks :
                      /\ task[t].status \in {"ok", "failed"}
                      /\ task[t].status = "ok" => task[t].progress = TaskLen))
    /\ [][gmode = "complete" /\ gpc \in {"returned", "raised"} => task' = task]_vars

\* Task 3 failed first, task 2 failed later after a step of its own, task 1
\* ran all its steps after both failures; only then the helper raised.
C10_Witness ==
    /\ gmode = "complete" /\ gpc = "raised"
    /\ failOrder = <<3, 2>>
    /\ task[2].progress > 0
    /\ task[1].status = "ok" /\ task[1].progress = TaskLen

\* C11: when gather_raise_first_error_after_all_tasks_complete raises, some
\* task failed and the failure raised is the one of the failed task with the
\* lowest submission index, whatever the order of the failures.
C11_LowestIndex ==
    gmode = "complete" /\ gpc = "raised" =>
        LET failed == {t \in Tasks : task[t].status = "failed"} IN
        /\ failed # {}
        /\ \A t \in failed : (\A u \in failed : t <= u) => gout.exc = Err(t)

\* The helper raised the failure of a task that was not the first to fail.
C11_Witness ==
    /\ gmode = "complete" /\ gpc = "raised"
    /\ Len(failOrder) >= 2
    /\ failOrder[2] < failOrder[1]
    /\ gout.exc = Err(failOrder[2])

\* C12: when every task succeeded the helper returns, and what it returns has
\* one element per task, the i-th being the result of the i-th task submitted,
\* whatever the order in which the tasks ended.
C12_SubmissionOrder ==
    gmode = "complete" /\ gpc \in {"returned", "raised"} /\ (\A t \in Tasks : task[t].status = "ok") =>
        /\ gpc = "returned"
        /\ Len(gout.results) = NumTasks
        /\ \A i \in Tasks : gout.results[i] = Ok(i)

\* The helper returned although the last task submitted ended first.
C12_Witness ==
    /\ gmode = "complete" /\ gpc = "returned"
    /\ Len(doneOrder) = NumTasks
    /\ doneOrder[1] = NumTasks /\ doneOrder[NumTasks] = 1
    /\ gout.results[1] = Ok(1)

\* C29: a client call holds its permit from admission to its final outcome,
\* through every retry pause, backoff wait, park and completion poll: the
\* permit is given back only in the step in which the call ends, and the
\* status queries take no permit of their own.
C29_PermitHeldThroughout ==
    /\ [](/\ \A m \in Mutators :
               /\ post[m].pc \notin {"idle", "acquire", "done"}
                    => post[m].acquired = 1 /\ post[m].released = 0
               /\ poll[m].acquired = 0
          /\ semaphore = Capacity - Cardinality({m \in Mutators :
                               post[m].pc \notin {"idle", "acquire", "done"}}))
    /\ [][\A m \in Mutators :
            post'[m].released > post[m].released
                => post[m].pc \notin {"idle", "acquire", "done"} /\ post'[m].pc = "done"
         ]_vars

\* Every permit is held by a call that is waiting, not requesting: one
\* pauses between two status queries, another waits out a retry pause or a
\* backoff window; a further call is blocked at the gate.
C29_Witness ==
    /\ semaphore = 0
    /\ \E a, b, c \in Mutators :
        /\ post[a].pc = "pollSleep"
        /\ post[b].pc \in {"retrySleep", "backoff"}
        /\ post[c].pc = "acquire"
    /\ \A m \in Mutators : post[m].pc # "running" /\ poll[m].pc # "running"

\* C31: no client operation asks the gate for a permit while it holds one:
\* a mutating call takes one permit, its status queries take none and never
\* wait at the gate, so a call blocked at the gate holds no permit and every
\* request in flight, the mutation or a status query, has exactly one permit
\* held for it.
C31_OnePermitPerOperation ==
    \A m \in Mutators :
        /\ post[m].acquired - post[m].released \in {0, 1}
        /\ post[m].pc = "acquire" => post[m].acquired = post[m].released
        /\ poll[m].pc # "acquire" /\ poll[m].acquired = 0 /\ poll[m].released = 0
        /\ (post[m].pc = "running" \/ poll[m].pc = "running")
               => post[m].acquired - post[m].released = 1

\* The gate is full, a holder's status query is in flight, and another call
\* waits at the gate.
C31_Witness ==
    /\ semaphore = 0
    /\ \E a, b \in Mutators :
        /\ post[a].pc = "polling" /\ poll[a].pc = "running"
        /\ post[b].pc = "acquire"

\* C23: a mutating call that is the probe never waits on itself: while it
\* polls for completion inside its own invocation (the state is recover on
\* its behalf), its status query is not parked waiting for the recovery to
\* end.
C23_ProbeNeverWaitsOnItself ==
    \A m \in Mutators :
        ~(/\ post[m].is_backoff
          /\ post[m].pc = "polling"
          /\ state = "recover"
          /\ poll[m].pc = "parked")

\* C24: within one call, the mutating request is accepted at most once and
\* on_issued fires at most once: a failure while polling for completion does
\* not make retry send the mutating request again.
C24_SentOnce ==
    \A m \in Mutators : mut[m].accepted <= 1 /\ mut[m].issued <= 1

\* C33: gather_raise_first_error_after_all_tasks_complete returns a list
\* only when every task succeeded: when a task ended in a failure or in
\* cancellation it raises, and no element of a list it returns is a failure
\* or a cancellation.
C33_ReturnsOnlySuccesses ==
    gmode = "complete" /\ gpc \in {"returned", "raised"} =>
        /\ (\E t \in Tasks : task[t].status \in {"failed", "cancelled"})
                => gpc = "raised"
        /\ gpc = "returned"
                => \A i \in 1..Len(gout.results) : gout.results[i] = Ok(i)

\* ========================== claims about reimport ==========================

\* C16: no delete and no insert request is issued for any table until the
\* compatibility check of every snapshot table has passed; when the check of
\* a table failed, no remote table has been mutated.
C16_ChecksBeforeMutation ==
    /\ (\E t \in Tables : rt[t].deletes > 0 \/ rt[t].inserts > 0 \/ rt[t].mpc # "none")
            => \A u \in Tables : rt[u].pc = "passed"
    /\ (\E t \in Tables : rt[t].pc = "failed")
            => /\ rphase \in {"check", "failed"}
               /\ \A u \in Tables : rt[u].deletes = 0 /\ rt[u].inserts = 0

\* Every check passed and a table was deleted from and inserted into.
C16_Witness ==
    /\ \A t \in Tables : rt[t].pc = "passed"
    /\ \E t \in Tables : rt[t].deletes > 0 /\ rt[t].inserts > 0

\* C17: a compatibility failure is raised on its first occurrence: the check
\* of a table runs at most once, whatever the retry policy does to the client
\* calls, and a table whose check failed gets no delete and no insert.
C17_FatalNotRetried ==
    \A t \in Tables :
        /\ rt[t].checks <= 1
        /\ rt[t].pc = "failed"
            => /\ rt[t].checks = 1
               /\ rt[t].mpc = "none"
               /\ rt[t].deletes = 0 /\ rt[t].inserts = 0
               /\ rphase \in {"check", "failed"}

\* The check of a table failed and reimport_doc raised.
C17_Witness ==
    /\ rphase = "failed"
    /\ \E t \in Tables : rt[t].pc = "failed" /\ rt[t].checks = 1

\* C18: the insert payload of a table holds, for each snapshot row, exactly
\* the cells of the columns that are not calculated, each with the snapshot
\* value; no cell of a calculated column is sent.
C18_OmitsCalculated ==
    \A t \in Tables :
        rt[t].inserts > 0 =>
            rt[t].payload =
                [r \in 1..Len(snap[t].rows) |->
                    {[column |-> snap[t].columns[i].id, value |-> snap[t].rows[r][i]] :
                        i \in {j \in 1..Len(snap[t].columns) :
                                  ~snap[t].columns[j].calculated}}]

\* C19: the check of a table passes if and only if the remote name equals the
\* snapshot's, the remote type is "table", and every snapshot column is on
\* the remote table by id with the same name and the same calculated flag;
\* otherwise it raises.
C19_PassesIff ==
    [][\A t \in Tables :
          LET nameAndType == /\ rt[t].table_api.name = snap[t].name
                             /\ rt[t].table_api.type = "table"
              columns == \A i \in 1..Len(snap[t].columns) :
                            \E c \in rt[t].columns_api :
                                /\ c.id = snap[t].columns[i].id
                                /\ c.name = snap[t].columns[i].name
                                /\ c.calculated = snap[t].columns[i].calculated
          IN
          /\ (rt[t].pc = "gotTable" /\ rt'[t].pc # "gotTable" /\ rphase' = rphase)
                => /\ rt'[t].pc \in {"getColumns", "failed"}
                   /\ rt'[t].pc = "failed" <=> ~nameAndType
          /\ (rt[t].pc = "gotColumns" /\ rt'[t].pc # "gotColumns" /\ rphase' = rphase)
                => /\ rt'[t].pc \in {"passed", "failed"}
                   /\ rt'[t].pc = "passed" <=> (nameAndType /\ columns)
          /\ (rt'[t].pc = "passed" /\ rt[t].pc # "passed")
                => rt[t].pc = "gotColumns"
      ]_vars

\* A table with MaxColumns columns, one calculated and one not, passed its
\* check and the check of another table failed.
C19_Witness ==
    /\ \E t \in Tables :
        /\ rt[t].pc = "passed"
        /\ Len(snap[t].columns) = MaxColumns
        /\ \E i, j \in 1..MaxColumns :
            snap[t].columns[i].calculated /\ ~snap[t].columns[j].calculated
    /\ \E t \in Tables : rt[t].pc = "failed" /\ rt[t].checks = 1

C21_EnumerateBeforeWork ==
    /\ [](\A d \in 1..NumDocs :
            edoc[d].pc # "unborn"
                => export.pc # "collect" /\ export.documents = export.remote)
    /\ [](\A d \in 1..NumDocs : \A t \in Tables :
            edoc[d].tpc[t] # "unborn"
                => /\ edoc[d].pc \in {"gather", "returned", "raised"}
                   /\ edoc[d].tables = edoc[d].remote
                   /\ edoc[d].total = edoc[d].remote)
    /\ [][\A d \in 1..NumDocs :
            (\E t \in Tables : edoc[d].tpc[t] # "unborn")
                => edoc'[d].total = edoc[d].total]_vars
    /\ [](\A d \in 1..NumDocs :
            edoc[d].current <= (IF edoc[d].total = NoTotal THEN 0 ELSE edoc[d].total))

\* One document has both its tables counted and one of them exported while
\* the other is still running, and another document is still enumerating
\* its tables.
C21_Witness ==
    \E d, e \in 1..NumDocs :
        /\ edoc[d].pc = "gather" /\ edoc[d].total = 2 /\ edoc[d].current = 1
        /\ \E t \in Tables : edoc[d].tpc[t] = "running"
        /\ edoc[e].pc = "collect" /\ edoc[e].tables = 1 /\ edoc[e].remote = 2

\* C22: when the outputs of one table are written, a write that fails
\* neither prevents nor cancels another write: a task reports only when every
\* task it gathered has ended, the step in which a write fails changes no
\* other task, a write that has not started yet can still start, and the
\* failure is reported by _export_rows only when every write has returned
\* or raised.  (Row files are never attempted if their folder cannot be
\* made, which is no failure of a write.)
C22_WritesAllComplete ==
    /\ [](\A n \in WriteNodes \ WriteFiles :
            wpc[n] \in {"returned", "raised"}
                => \/ \A c \in Children(n) : wpc[c] \in {"returned", "raised"}
                   \/ /\ n = RawRows /\ wpc[n] = "raised"
                      /\ \A c \in Children(n) : wpc[c] = "unborn")
    /\ [](wpc[ExportRows] \in {"returned", "raised"}
            => /\ \A n \in WriteFiles :
                    \/ wpc[n] \in {"returned", "raised"}
                    \/ n[1] = "rows" /\ wpc[n] = "unborn" /\ wpc[RawRows] = "raised"
               /\ wpc[ExportRows] = "raised"
                    <=> \/ \E n \in WriteFiles : wpc[n] = "raised"
                        \/ wpc[RawRows] = "raised")
    /\ [](\A n \in WriteFiles :
            wpc[n] = "created"
                => Cardinality({x \in WriteFiles : wpc[x] = "running"}) < WriteSemaphore)
    /\ [][\A n \in WriteFiles :
            /\ wpc[n] \in {"returned", "raised"} => wpc'[n] = wpc[n]
            /\ wpc[n] = "running" /\ wpc'[n] = "raised"
                => \A x \in WriteNodes \ {n} : wpc'[x] = wpc[x]
         ]_vars

\* The JSON form of the first row failed, every other file of the table is
\* written, and _export_rows has reported the failure.
C22_Witness ==
    /\ wpc[ExportRows] = "raised"
    /\ wpc[<<"rows", 1, "json">>] = "raised"
    /\ \A n \in WriteFiles \ {<<"rows", 1, "json">>} : wpc[n] = "returned"

\* C34: when a table export task has ended, by success or by failure,
\* neither its column listing nor its row listing is still running; so none
\* is running once the fan-out over the tables has ended.
C34_NoFetchOutlivesTable ==
    /\ \A t \in Tables :
          etable.task[t].pc \in {"returned", "raised"}
              => etable.task[t].columns # "running" /\ etable.task[t].rows # "running"
    /\ etable.gather \in {"returned", "raised"}
          => \A t \in Tables :
                etable.task[t].columns # "running" /\ etable.task[t].rows # "running"

====
